---- MODULE Spec2Model ----
(***************************************************************************)
(* Model of the xaostech-security worker (src/unnamed/part_007) and its    *)
(* D1 schema (src/unnamed/part_008): the applicability rule table, the     *)
(* built-in heuristic analyzer, the alert store and the scan orchestrator. *)
(***************************************************************************)
EXTENDS Integers, Sequences, FiniteSets, TLC

\* ------------------------------------------------------------------ bounds

MaxRepos == 3          \* repositories the organisation holds upstream
MaxAlerts == 2         \* open alerts a repository holds upstream
MaxScans == 2          \* executions of runSecurityScan
MaxFaults == 2         \* upstream / D1 failures injected in one behaviour
MaxRules == 2          \* rows of applicability_rules when rules are checked alone
MaxPosted == 1         \* rules POST /rules adds next to the schema's rows during scans
MaxKeywords == 2       \* known phrases one advisory summary contains
MaxTime == 2           \* seconds the clock of datetime('now') advances
MaxCalls == 2          \* calls of githubAPI when the token is checked alone
MaxListed == 201       \* items an upstream list holds when a list operation is checked alone

\* SQL NULL / JavaScript undefined for text columns and optional fields.
NULL == "<null>"

\* ------------------------------------------------- alerts (DependabotAlert)

Severities == {"critical", "high", "medium", "low"}
Scopes == {"runtime", "development"}
DismissReasons == {"fix_started", "inaccurate", "no_bandwidth", "not_used", "tolerable_risk"}

\* The phrases analyzeAlertApplicability looks for in summary.toLowerCase().
\* A summary is modelled by the set of these phrases it contains.
Keywords ==
    {"jwk", "jwt", "algorithm confusion", "servestatic", "deno", "csrf",
     "body limit", "trierouter", "named path parameters", "vary header",
     "cors bypass", "denial of service", "dos"}

Summaries == {s \in SUBSET Keywords : Cardinality(s) <= MaxKeywords}

\* String.prototype.toLowerCase on the package names of the model.
toLowerCase(s) == IF s = "Hono" THEN "hono" ELSE s

\* A DependabotAlert payload as the upstream API returns it.
Alert(number, state, name, ecosystem, scope, ghsa, cve, summary, severity, created, updated) ==
    [number |-> number, state |-> state,
     package_name |-> name, package_ecosystem |-> ecosystem, scope |-> scope,
     ghsa_id |-> ghsa, cve_id |-> cve, summary |-> summary, severity |-> severity,
     created_at |-> created, updated_at |-> updated]

\* ------------------------------------------ heuristic analyzer (pure function)

Verdict(applicable, reason, dismissReason) ==
    [applicable |-> applicable, reason |-> reason, dismissReason |-> dismissReason]

includes(summary, phrase) == phrase \in summary

\* No branch of a block returned: control falls through to the next block.
NoVerdict == Verdict(TRUE, NULL, NULL)

\* Mutant: the body-limit check placed before the CSRF check.
HonoAnalysis_BodyLimitFirst(summary) ==
    IF includes(summary, "jwk") \/ includes(summary, "jwt") \/ includes(summary, "algorithm confusion")
      THEN Verdict(FALSE, "We use jose library for JWT validation, not Hono JWT middleware", "not_used")
    ELSE IF includes(summary, "servestatic") /\ includes(summary, "deno")
      THEN Verdict(FALSE, "Deno-specific vulnerability - we run on Cloudflare Workers", "inaccurate")
    ELSE IF includes(summary, "body limit")
      THEN Verdict(FALSE, "Cloudflare Workers has built-in request size limits", "tolerable_risk")
    ELSE IF includes(summary, "csrf")
      THEN Verdict(TRUE, "Review CSRF middleware usage in codebase", NULL)
    ELSE IF includes(summary, "trierouter") \/ includes(summary, "named path parameters")
      THEN Verdict(FALSE, "TrieRouter parameter override is low risk for our API design", "tolerable_risk")
    ELSE IF includes(summary, "vary header") \/ includes(summary, "cors bypass")
      THEN Verdict(TRUE, "CORS bypass could affect cross-origin security", NULL)
    ELSE NoVerdict

HonoAnalysis(summary) ==
    IF includes(summary, "jwk") \/ includes(summary, "jwt") \/ includes(summary, "algorithm confusion")
      THEN Verdict(FALSE, "We use jose library for JWT validation, not Hono JWT middleware", "not_used")
    ELSE IF includes(summary, "servestatic") /\ includes(summary, "deno")
      THEN Verdict(FALSE, "Deno-specific vulnerability - we run on Cloudflare Workers", "inaccurate")
    ELSE IF includes(summary, "csrf")
      THEN Verdict(TRUE, "Review CSRF middleware usage in codebase", NULL)
    ELSE IF includes(summary, "body limit")
      THEN Verdict(FALSE, "Cloudflare Workers has built-in request size limits", "tolerable_risk")
    ELSE IF includes(summary, "trierouter") \/ includes(summary, "named path parameters")
      THEN Verdict(FALSE, "TrieRouter parameter override is low risk for our API design", "tolerable_risk")
    ELSE IF includes(summary, "vary header") \/ includes(summary, "cors bypass")
      THEN Verdict(TRUE, "CORS bypass could affect cross-origin security", NULL)
    ELSE NoVerdict

\* Mutant: the development-scope verdict returned without a dismissReason.
GeneralAnalysis_NoDismissReason(scope, severity) ==
    IF scope = "development"
      THEN Verdict(FALSE, "Development dependency - not deployed to production", NULL)
    ELSE IF severity = "critical"
      THEN Verdict(TRUE, "critical severity - requires immediate attention", NULL)
    ELSE IF severity = "high"
      THEN Verdict(TRUE, "high severity - requires immediate attention", NULL)
    ELSE Verdict(TRUE, "Requires manual review", NULL)

GeneralAnalysis(scope, severity) ==
    IF scope = "development"
      THEN Verdict(FALSE, "Development dependency - not deployed to production", "not_used")
    ELSE IF severity = "critical"
      THEN Verdict(TRUE, "critical severity - requires immediate attention", NULL)
    ELSE IF severity = "high"
      THEN Verdict(TRUE, "high severity - requires immediate attention", NULL)
    ELSE Verdict(TRUE, "Requires manual review", NULL)

analyzeAlertApplicability(alert) ==
    LET pkg == toLowerCase(alert.package_name)
        scope == alert.scope
        summary == alert.summary
    IN  IF pkg = "hono" /\ HonoAnalysis(summary) # NoVerdict
          THEN HonoAnalysis(summary)
        ELSE IF pkg = "wrangler" /\ scope = "development"
          THEN Verdict(FALSE, "Wrangler is a development dependency, not deployed to production", "not_used")
        ELSE IF pkg = "zod" /\ (includes(summary, "denial of service") \/ includes(summary, "dos"))
          THEN Verdict(TRUE, "Zod DoS could affect API endpoints - verify input validation patterns", NULL)
        ELSE GeneralAnalysis(scope, alert.severity)

\* -------------------------------------------- rule table (applicability_rules)

Rule(name, ecosystem, ghsa, cve, severity, is_applicable, reason, dismiss_reason, priority, active) ==
    [package_name |-> name, package_ecosystem |-> ecosystem, ghsa_id |-> ghsa,
     cve_id |-> cve, severity |-> severity, is_applicable |-> is_applicable,
     reason |-> reason, dismiss_reason |-> dismiss_reason, priority |-> priority,
     active |-> active]

\* The rows the schema inserts when the database is created.
DefaultRules ==
    << Rule("hono", "npm", NULL, NULL, NULL, 1,
            "Hono is our web framework - check if specific vulnerability applies", NULL, 10, 1),
       Rule(NULL, NULL, NULL, NULL, NULL, 1,
            "Default: treat all alerts as applicable until reviewed", NULL, -1, 1) >>

\* Mutant: a rule's cve_id is not compared with the alert's.
matches_WithoutCve(rule, alert) ==
    /\ (rule.package_name = NULL \/ rule.package_name = alert.package_name)
    /\ (rule.package_ecosystem = NULL \/ rule.package_ecosystem = alert.package_ecosystem)
    /\ (rule.ghsa_id = NULL \/ rule.ghsa_id = alert.ghsa_id)
    /\ (rule.severity = NULL \/ rule.severity = alert.severity)

\* The condition `matches` of checkApplicability.
matches(rule, alert) ==
    /\ (rule.package_name = NULL \/ rule.package_name = alert.package_name)
    /\ (rule.package_ecosystem = NULL \/ rule.package_ecosystem = alert.package_ecosystem)
    /\ (rule.ghsa_id = NULL \/ rule.ghsa_id = alert.ghsa_id)
    /\ (rule.cve_id = NULL \/ rule.cve_id = alert.cve_id)
    /\ (rule.severity = NULL \/ rule.severity = alert.severity)

\* WHERE active = 1: the positions of the table's active rows.
ActiveRows(table) == {i \in DOMAIN table : table[i].active = 1}

\* Mutant: the query without ORDER BY, the rows coming in insertion order.
PriorityDesc_InsertionOrder(table, order) ==
    \A i, j \in DOMAIN order : i < j => order[i] < order[j]

\* ORDER BY priority DESC: the orders the query may return the active rows in.
\* SQL leaves the order of rows of equal priority open.
PriorityDesc(table, order) ==
    \A i, j \in DOMAIN order : i < j => table[order[i]].priority >= table[order[j]].priority

SelectActiveRules(table) ==
    LET rows == ActiveRows(table)
        n == Cardinality(rows)
    IN  {order \in [1..n -> rows] :
            /\ \A i, j \in 1..n : i # j => order[i] # order[j]
            /\ PriorityDesc(table, order)}

\* Mutant: a matching rule's reason is replaced by the fallback's.
FirstMatch_FallbackReason(table, order, k, alert) ==
    LET hits == {i \in DOMAIN order : matches(table[order[i]], alert)}
    IN  IF hits = {}
          THEN Verdict(TRUE, "No matching rule - treating as applicable", NULL)
          ELSE LET first == CHOOSE i \in hits : \A j \in hits : i <= j
               IN  Verdict(table[order[first]].is_applicable = 1,
                           "No matching rule - treating as applicable",
                           table[order[first]].dismiss_reason)

\* The loop of checkApplicability over one result order.
RECURSIVE FirstMatch(_, _, _, _)
FirstMatch(table, order, k, alert) ==
    IF k > Len(order)
      THEN Verdict(TRUE, "No matching rule - treating as applicable", NULL)
    ELSE IF matches(table[order[k]], alert)
      THEN Verdict(table[order[k]].is_applicable = 1, table[order[k]].reason,
                   table[order[k]].dismiss_reason)
    ELSE FirstMatch(table, order, k + 1, alert)

\* The results checkApplicability can return for an alert.
checkApplicability(table, alert) ==
    {FirstMatch(table, order, 1, alert) : order \in SelectActiveRules(table)}

\* ------------------------------------------------------- alert store (alerts)

VARIABLES
    rules,          \* applicability_rules: the rows in insertion order
    alerts,         \* alerts: the set of rows
    scan_history,   \* scan_history: the rows in insertion order (id = position)
    now,            \* the second datetime('now') returns
    ghOpen,         \* upstream: the <<repo, number>> of the alerts that are open
    dismissCalls,   \* upstream: the dismissal requests dismissAlert has made
    run,            \* the executions of runSecurityScan, by trigger
    faults,         \* failures injected so far
    probeAlert,     \* the alert last handed to a classifier on its own
    ruleResult,     \* what checkApplicability returned for it
    heurResult,     \* what analyzeAlertApplicability returned for it
    lastCall,       \* the last operation made on the alert store on its own
    auth,           \* the token cache, the clock and the network calls of githubAPI
    pages,          \* a list operation on its own: the requests made, the items read
    http,           \* the request an operator sent and the answer it got
    race            \* two callers of getInstallationToken, each at one of its awaits

vars == <<rules, alerts, scan_history, now, ghOpen, dismissCalls, run, faults,
          probeAlert, ruleResult, heurResult, lastCall, auth, pages, http, race>>

NoCall == [op |-> "none", repo |-> 0]

\* KV get returning null: no entry under 'github_installation_token'.
NoEntry == [token |-> 0, expires_at |-> 0, put_at |-> 0]

\* The KV namespace before any token is cached, no call made to GitHub yet.
FreshAuth ==
    [cache |-> NoEntry, clock |-> 0, issued |-> 0, calls |-> 0, log |-> <<>>,
     result |-> "none", moved |-> FALSE]

\* No list operation started.
NoPages == [op |-> "none", total |-> 0, page |-> 1, got |-> 0, requests |-> 0, done |-> FALSE]

\* No request received.
NoRequest ==
    [route |-> "none", header |-> NULL, query |-> NULL, body |-> NULL, status |-> 0,
     effects |-> {}]

\* The callers of getInstallationToken when its awaits are followed one by one.
Callers == {1, 2}

\* No caller has entered getInstallationToken.
NoRace ==
    [pc |-> [c \in Callers |-> "idle"], data |-> [c \in Callers |-> NoEntry],
     hit |-> [c \in Callers |-> FALSE], returned |-> [c \in Callers |-> 0],
     exchanged |-> {}]

\* UNIQUE(repo_full_name, alert_type, github_alert_id)
Conflicting(table, repo, number) ==
    {row \in table : row.repo_full_name = repo /\ row.alert_type = "dependabot"
                       /\ row.github_alert_id = number}

\* The row INSERT INTO alerts builds: bound values and column defaults.
InsertedRow(table, repo, alert, analysis, t) ==
    [id |-> Cardinality(table) + 1,
     github_alert_id |-> alert.number, repo_full_name |-> repo,
     alert_type |-> "dependabot", state |-> alert.state, severity |-> alert.severity,
     package_ecosystem |-> alert.package_ecosystem, package_name |-> alert.package_name,
     ghsa_id |-> alert.ghsa_id, cve_id |-> alert.cve_id, summary |-> alert.summary,
     is_applicable |-> IF analysis.applicable THEN 1 ELSE 0,
     applicability_reason |-> analysis.reason,
     auto_closed |-> 0, auto_closed_at |-> 0, auto_closed_reason |-> NULL,
     github_created_at |-> alert.created_at, github_updated_at |-> alert.updated_at,
     first_seen_at |-> t, last_checked_at |-> t]

\* Mutant: DO UPDATE SET refreshing every bound column from the excluded row.
ConflictUpdate_AllColumns(row, excluded, t) ==
    [excluded EXCEPT !.id = row.id, !.first_seen_at = row.first_seen_at,
                     !.auto_closed = row.auto_closed, !.auto_closed_at = row.auto_closed_at,
                     !.auto_closed_reason = row.auto_closed_reason]

\* ON CONFLICT ... DO UPDATE SET: the columns refreshed from the excluded row.
ConflictUpdate(row, excluded, t) ==
    [row EXCEPT !.state = excluded.state,
                !.is_applicable = excluded.is_applicable,
                !.applicability_reason = excluded.applicability_reason,
                !.last_checked_at = t]

\* Mutant: a table without the UNIQUE key, every call inserting a row.
storeAlert_NoUniqueKey(table, repo, alert, analysis, t) ==
    table \cup {InsertedRow(table, repo, alert, analysis, t)}

\* Mutant: INSERT OR REPLACE, the conflicting row replaced by a fresh one.
storeAlert_InsertOrReplace(table, repo, alert, analysis, t) ==
    (table \ Conflicting(table, repo, alert.number))
        \cup {InsertedRow(table, repo, alert, analysis, t)}

\* The alerts table after storeAlert, run at second t.
storeAlert(table, repo, alert, analysis, t) ==
    LET excluded == InsertedRow(table, repo, alert, analysis, t)
        hit == Conflicting(table, repo, alert.number)
    IN  IF hit = {}
          THEN table \cup {excluded}
          ELSE (table \ hit) \cup {ConflictUpdate(row, excluded, t) : row \in hit}

\* Mutant: the UPDATE setting the flag alone, without its time and reason.
markAutoClosed_FlagOnly(table, repo, number, reason, t) ==
    LET hit == Conflicting(table, repo, number)
    IN  (table \ hit) \cup {[row EXCEPT !.auto_closed = 1] : row \in hit}

\* UPDATE alerts SET auto_closed = 1, ... WHERE repo_full_name = ? AND github_alert_id = ?
markAutoClosed(table, repo, number, reason, t) ==
    LET hit == Conflicting(table, repo, number)
    IN  (table \ hit) \cup
        {[row EXCEPT !.auto_closed = 1, !.auto_closed_at = t, !.auto_closed_reason = reason]
            : row \in hit}

\* ------------------------------------------------------------------ upstream

\* The repositories /orgs/{org}/repos lists.
OrgRepos == [i \in 1..MaxRepos |-> i]

\* The payloads the upstream alerts cycle through.
AlertKinds(number) ==
    << Alert(number, "open", "hono", "npm", "runtime", "GHSA-1", "CVE-1", {"jwt"}, "high", 1, 1),
       Alert(number, "open", "left-pad", "npm", "runtime", "GHSA-3", "CVE-3", {}, "medium", 1, 1),
       Alert(number, "open", "left-pad", "npm", "development", "GHSA-2", NULL, {}, "critical", 1, 1),
       Alert(number, "open", "hono", "npm", "runtime", "GHSA-4", NULL, {"csrf"}, "low", 1, 1) >>

\* The alert `number` of repository `repo`, as upstream reports it.
ghAlert(repo, number) ==
    AlertKinds(number)[(((repo - 1) * MaxAlerts + number - 1) % 4) + 1]

\* GET /repos/{repo}/dependabot/alerts?state=open: the open alerts, by number.
OpenAlerts(open, repo) ==
    LET all == [n \in 1..MaxAlerts |-> ghAlert(repo, n)]
        IsOpen(a) == <<repo, a.number>> \in open
    IN  SelectSeq(all, IsOpen)

\* ------------------------------------------------------- scan orchestrator

Triggers == {"scheduled", "manual"}

IdleRun ==
    [pc |-> "idle", scanId |-> 0, repos |-> <<>>, repo |-> 0, alerts |-> <<>>, idx |-> 0,
     analysis |-> NoVerdict, reposScanned |-> 0, alertsFound |-> 0,
     alertsAutoClosed |-> 0, applicableAlerts |-> 0, errors |-> <<>>,
     failedFetches |-> {}]

InFlight(r) == run[r].pc \notin {"idle", "done", "crashed"}

\* An entry of the errors list: the message's fixed part and what it names.
ErrorEntry(msg, repo, number) == [msg |-> msg, repo |-> repo, number |-> number]

\* A failure of an upstream call or of a D1 statement, within the budget.
Fault == faults < MaxFaults /\ faults' = faults + 1
NoFault == faults' = faults

\* `for (const repo of repos)`: on to the next repository, or past the loop.
NextRepo(rec) ==
    IF rec.repo < Len(rec.repos)
      THEN [rec EXCEPT !.pc = "fetch", !.repo = rec.repo + 1, !.alerts = <<>>, !.idx = 0,
                       !.analysis = NoVerdict]
      ELSE [rec EXCEPT !.pc = "finalize", !.alerts = <<>>, !.idx = 0, !.analysis = NoVerdict]

\* `for (const alert of alerts)`: on to the next alert, or to the next repository.
NextAlert(rec) ==
    IF rec.idx < Len(rec.alerts)
      THEN [rec EXCEPT !.pc = "classify", !.idx = rec.idx + 1, !.analysis = NoVerdict]
      ELSE NextRepo(rec)

CurrentRepo(rec) == rec.repos[rec.repo]
CurrentAlert(rec) == rec.alerts[rec.idx]

\* INSERT INTO scan_history (scan_type) VALUES (?) RETURNING id, with the defaults.
StartScan(r) ==
    /\ ~InFlight(r)
    /\ Len(scan_history) < MaxScans
    /\ scan_history' = Append(scan_history,
            [id |-> Len(scan_history) + 1, scan_type |-> r, started_at |-> now,
             completed_at |-> 0, repos_scanned |-> 0, alerts_found |-> 0,
             alerts_auto_closed |-> 0, errors |-> <<>>, success |-> 1])
    /\ run' = [run EXCEPT ![r] = [IdleRun EXCEPT !.pc = "listRepos",
                                                 !.scanId = Len(scan_history) + 1]]
    /\ UNCHANGED <<rules, alerts, now, ghOpen, dismissCalls, faults,
                   probeAlert, ruleResult, heurResult, lastCall,
                   auth, pages, http, race>>

\* Mutant: a failed enumeration taken as an organisation without repositories.
ListRepos_Swallow(r) ==
    /\ run[r].pc = "listRepos"
    /\ \/ /\ NoFault
          /\ LET rec == [run[r] EXCEPT !.repos = OrgRepos, !.repo = 0]
             IN  run' = [run EXCEPT ![r] = NextRepo(rec)]
       \/ /\ Fault
          /\ run' = [run EXCEPT ![r] = [@ EXCEPT !.pc = "finalize"]]
    /\ UNCHANGED <<rules, alerts, scan_history, now, ghOpen, dismissCalls,
                   probeAlert, ruleResult, heurResult, lastCall,
                   auth, pages, http, race>>

\* const repos = await listOrgRepos(env): the list, or a throw into the outer catch.
ListRepos(r) ==
    /\ run[r].pc = "listRepos"
    /\ \/ /\ NoFault
          /\ LET rec == [run[r] EXCEPT !.repos = OrgRepos, !.repo = 0]
             IN  run' = [run EXCEPT ![r] = NextRepo(rec)]
       \/ /\ Fault
          /\ run' = [run EXCEPT ![r] =
                [@ EXCEPT !.pc = "failed",
                          !.errors = Append(@, ErrorEntry("Scan failed", 0, 0))]]
    /\ UNCHANGED <<rules, alerts, scan_history, now, ghOpen, dismissCalls,
                   probeAlert, ruleResult, heurResult, lastCall,
                   auth, pages, http, race>>

\* Mutant: getDependabotAlerts without its catch, the failure reaching the caller.
getDependabotAlerts_Rethrow(ok, open) ==
    [threw |-> ~ok, value |-> open]

\* getDependabotAlerts: the upstream list, and [] when the upstream call throws.
getDependabotAlerts(ok, open) ==
    [threw |-> FALSE, value |-> IF ok THEN open ELSE <<>>]

\* Mutant: the fetched list handed to the loop without the two counters touched.
FetchAlerts_NoCount(r) ==
    /\ run[r].pc = "fetch"
    /\ \E ok \in BOOLEAN :
         /\ IF ok THEN NoFault ELSE Fault
         /\ LET rec == run[r]
                res == getDependabotAlerts(ok, OpenAlerts(ghOpen, CurrentRepo(rec)))
            IN  run' = [run EXCEPT ![r] =
                  IF res.threw
                    THEN NextRepo([rec EXCEPT !.errors =
                            Append(@, ErrorEntry("Failed to scan", CurrentRepo(rec), 0)),
                            !.failedFetches = @ \cup {CurrentRepo(rec)}])
                    ELSE NextAlert([rec EXCEPT !.alerts = res.value, !.idx = 0,
                                               !.failedFetches =
                                                    IF ok THEN @ ELSE @ \cup {CurrentRepo(rec)}])]
    /\ UNCHANGED <<rules, alerts, scan_history, now, ghOpen, dismissCalls,
                   probeAlert, ruleResult, heurResult, lastCall,
                   auth, pages, http, race>>

\* const alerts = await getDependabotAlerts(...); reposScanned++; alertsFound += ...
FetchAlerts(r) ==
    /\ run[r].pc = "fetch"
    /\ \E ok \in BOOLEAN :
         /\ IF ok THEN NoFault ELSE Fault
         /\ LET rec == run[r]
                res == getDependabotAlerts(ok, OpenAlerts(ghOpen, CurrentRepo(rec)))
            IN  run' = [run EXCEPT ![r] =
                  IF res.threw
                    THEN NextRepo([rec EXCEPT !.errors =
                            Append(@, ErrorEntry("Failed to scan", CurrentRepo(rec), 0)),
                            !.failedFetches = @ \cup {CurrentRepo(rec)}])
                    ELSE NextAlert([rec EXCEPT !.alerts = res.value, !.idx = 0,
                                               !.failedFetches =
                                                    IF ok THEN @ ELSE @ \cup {CurrentRepo(rec)},
                                               !.reposScanned = @ + 1,
                                               !.alertsFound = @ + Len(res.value)])]
    /\ UNCHANGED <<rules, alerts, scan_history, now, ghOpen, dismissCalls,
                   probeAlert, ruleResult, heurResult, lastCall,
                   auth, pages, http, race>>

\* The classifier runSecurityScan calls for an alert.
ScanVerdict(table, alert) == analyzeAlertApplicability(alert)

\* Mutant: a non-applicable alert is dismissed first, the store write left for later.
AfterClassify_DismissFirst(analysis) == IF analysis.applicable THEN "store" ELSE "dismiss"

\* The statement runSecurityScan reaches once the verdict is known.
AfterClassify(analysis) == "store"

\* const analysis = analyzeAlertApplicability(alert)
Classify(r) ==
    /\ run[r].pc = "classify"
    /\ LET analysis == ScanVerdict(rules, CurrentAlert(run[r]))
       IN  run' = [run EXCEPT ![r] = [@ EXCEPT !.analysis = analysis,
                                               !.pc = AfterClassify(analysis)]]
    /\ UNCHANGED <<rules, alerts, scan_history, now, ghOpen, dismissCalls, faults,
                   probeAlert, ruleResult, heurResult, lastCall,
                   auth, pages, http, race>>

\* Mutant: the dismissal is attempted whatever the verdict.
AfterStore_AlwaysDismiss(analysis) == "dismiss"

\* if (analysis.applicable) { applicableAlerts++ } else if (analysis.dismissReason) { ... }
AfterStore(analysis) ==
    IF analysis.applicable THEN "count"
    ELSE IF analysis.dismissReason # NULL THEN "dismiss"
    ELSE "skip"

\* Mutant: no per-repository catch, a throw of storeAlert reaching the outer catch.
StoreAlert_Uncaught(r) ==
    /\ run[r].pc = "store"
    /\ LET rec == run[r]
       IN  \/ /\ NoFault
              /\ alerts' = storeAlert(alerts, CurrentRepo(rec), CurrentAlert(rec), rec.analysis, now)
              /\ run' = [run EXCEPT ![r] =
                    CASE AfterStore(rec.analysis) = "count" ->
                            NextAlert([rec EXCEPT !.applicableAlerts = @ + 1])
                      [] AfterStore(rec.analysis) = "dismiss" ->
                            [rec EXCEPT !.pc = "dismiss"]
                      [] OTHER -> NextAlert(rec)]
           \/ /\ Fault
              /\ alerts' = alerts
              /\ run' = [run EXCEPT ![r] =
                    [rec EXCEPT !.pc = "failed",
                                !.errors = Append(@, ErrorEntry("Scan failed", 0, 0))]]
    /\ UNCHANGED <<rules, scan_history, now, ghOpen, dismissCalls,
                   probeAlert, ruleResult, heurResult, lastCall,
                   auth, pages, http, race>>

\* Mutant: storeAlert's throw caught next to the call, the branch on the
\* verdict taken all the same.
StoreAlert_CatchAndGoOn(r) ==
    /\ run[r].pc = "store"
    /\ LET rec == run[r]
           failed == [rec EXCEPT !.errors =
                        Append(@, ErrorEntry("Failed to scan", CurrentRepo(rec), 0))]
       IN  \/ /\ NoFault
              /\ alerts' = storeAlert(alerts, CurrentRepo(rec), CurrentAlert(rec), rec.analysis, now)
              /\ run' = [run EXCEPT ![r] =
                    CASE AfterStore(rec.analysis) = "count" ->
                            NextAlert([rec EXCEPT !.applicableAlerts = @ + 1])
                      [] AfterStore(rec.analysis) = "dismiss" ->
                            [rec EXCEPT !.pc = "dismiss"]
                      [] OTHER -> NextAlert(rec)]
           \/ /\ Fault
              /\ alerts' = alerts
              /\ run' = [run EXCEPT ![r] =
                    CASE AfterStore(rec.analysis) = "count" ->
                            NextAlert([failed EXCEPT !.applicableAlerts = @ + 1])
                      [] AfterStore(rec.analysis) = "dismiss" ->
                            [failed EXCEPT !.pc = "dismiss"]
                      [] OTHER -> NextAlert(failed)]
    /\ UNCHANGED <<rules, scan_history, now, ghOpen, dismissCalls,
                   probeAlert, ruleResult, heurResult, lastCall,
                   auth, pages, http, race>>

\* await storeAlert(...), then the branch on the verdict; a throw leaves the
\* repository through the per-repository catch.
StoreAlert(r) ==
    /\ run[r].pc = "store"
    /\ LET rec == run[r]
       IN  \/ /\ NoFault
              /\ alerts' = storeAlert(alerts, CurrentRepo(rec), CurrentAlert(rec), rec.analysis, now)
              /\ run' = [run EXCEPT ![r] =
                    CASE AfterStore(rec.analysis) = "count" ->
                            NextAlert([rec EXCEPT !.applicableAlerts = @ + 1])
                      [] AfterStore(rec.analysis) = "dismiss" ->
                            [rec EXCEPT !.pc = "dismiss"]
                      [] OTHER -> NextAlert(rec)]
           \/ /\ Fault
              /\ alerts' = alerts
              /\ run' = [run EXCEPT ![r] =
                    NextRepo([rec EXCEPT !.errors =
                        Append(@, ErrorEntry("Failed to scan", CurrentRepo(rec), 0))])]
    /\ UNCHANGED <<rules, scan_history, now, ghOpen, dismissCalls,
                   probeAlert, ruleResult, heurResult, lastCall,
                   auth, pages, http, race>>

\* The PATCH dismissAlert sends for an alert from a scan, and whether it succeeded.
DismissRequest(repo, number, reason, comment, ok) ==
    [repo |-> repo, number |-> number, state |-> "dismissed", dismissed_reason |-> reason,
     comment_prefix |-> "[xaostech-security[bot]] ", comment |-> comment, ok |-> ok,
     via |-> "runSecurityScan"]

\* Mutant: dismissAlert outside the inner try, its failure ending the repository.
Dismiss_Rethrow(r) ==
    /\ run[r].pc = "dismiss"
    /\ LET rec == run[r]
           repo == CurrentRepo(rec)
           number == CurrentAlert(rec).number
       IN  \/ /\ NoFault
              /\ dismissCalls' = dismissCalls \cup
                    {DismissRequest(repo, number, rec.analysis.dismissReason, rec.analysis.reason, TRUE)}
              /\ ghOpen' = ghOpen \ {<<repo, number>>}
              /\ run' = [run EXCEPT ![r] = [rec EXCEPT !.pc = "mark", !.alertsAutoClosed = @ + 1]]
           \/ /\ Fault
              /\ dismissCalls' = dismissCalls \cup
                    {DismissRequest(repo, number, rec.analysis.dismissReason, rec.analysis.reason, FALSE)}
              /\ ghOpen' = ghOpen
              /\ run' = [run EXCEPT ![r] =
                    NextRepo([rec EXCEPT !.errors =
                        Append(@, ErrorEntry("Failed to scan", repo, 0))])]
    /\ UNCHANGED <<rules, alerts, scan_history, now, probeAlert, ruleResult, heurResult, lastCall,
                   auth, pages, http, race>>

\* Mutant: alertsAutoClosed++ placed before the call of dismissAlert.
Dismiss_CountFirst(r) ==
    /\ run[r].pc = "dismiss"
    /\ LET rec == run[r]
           repo == CurrentRepo(rec)
           number == CurrentAlert(rec).number
       IN  \/ /\ NoFault
              /\ dismissCalls' = dismissCalls \cup
                    {DismissRequest(repo, number, rec.analysis.dismissReason, rec.analysis.reason, TRUE)}
              /\ ghOpen' = ghOpen \ {<<repo, number>>}
              /\ run' = [run EXCEPT ![r] = [rec EXCEPT !.pc = "mark", !.alertsAutoClosed = @ + 1]]
           \/ /\ Fault
              /\ dismissCalls' = dismissCalls \cup
                    {DismissRequest(repo, number, rec.analysis.dismissReason, rec.analysis.reason, FALSE)}
              /\ ghOpen' = ghOpen
              /\ run' = [run EXCEPT ![r] =
                    NextAlert([rec EXCEPT !.alertsAutoClosed = @ + 1, !.errors =
                        Append(@, ErrorEntry("Failed to dismiss", repo, number))])]
    /\ UNCHANGED <<rules, alerts, scan_history, now, probeAlert, ruleResult, heurResult, lastCall,
                   auth, pages, http, race>>

\* await dismissAlert(...); alertsAutoClosed++  /  the inner catch
Dismiss(r) ==
    /\ run[r].pc = "dismiss"
    /\ LET rec == run[r]
           repo == CurrentRepo(rec)
           number == CurrentAlert(rec).number
       IN  \/ /\ NoFault
              /\ dismissCalls' = dismissCalls \cup
                    {DismissRequest(repo, number, rec.analysis.dismissReason, rec.analysis.reason, TRUE)}
              /\ ghOpen' = ghOpen \ {<<repo, number>>}
              /\ run' = [run EXCEPT ![r] = [rec EXCEPT !.pc = "mark", !.alertsAutoClosed = @ + 1]]
           \/ /\ Fault
              /\ dismissCalls' = dismissCalls \cup
                    {DismissRequest(repo, number, rec.analysis.dismissReason, rec.analysis.reason, FALSE)}
              /\ ghOpen' = ghOpen
              /\ run' = [run EXCEPT ![r] =
                    NextAlert([rec EXCEPT !.errors =
                        Append(@, ErrorEntry("Failed to dismiss", repo, number))])]
    /\ UNCHANGED <<rules, alerts, scan_history, now, probeAlert, ruleResult, heurResult, lastCall,
                   auth, pages, http, race>>

\* UPDATE alerts SET auto_closed = 1, ...  /  the inner catch
MarkAutoClosed(r) ==
    /\ run[r].pc = "mark"
    /\ LET rec == run[r]
           repo == CurrentRepo(rec)
           number == CurrentAlert(rec).number
       IN  \/ /\ NoFault
              /\ alerts' = markAutoClosed(alerts, repo, number, rec.analysis.reason, now)
              /\ run' = [run EXCEPT ![r] = NextAlert(rec)]
           \/ /\ Fault
              /\ alerts' = alerts
              /\ run' = [run EXCEPT ![r] =
                    NextAlert([rec EXCEPT !.errors =
                        Append(@, ErrorEntry("Failed to dismiss", repo, number))])]
    /\ UNCHANGED <<rules, scan_history, now, ghOpen, dismissCalls,
                   probeAlert, ruleResult, heurResult, lastCall,
                   auth, pages, http, race>>

\* UPDATE scan_history SET completed_at = ..., success = 1 WHERE id = ?
Finalize(r) ==
    /\ run[r].pc = "finalize"
    /\ LET rec == run[r]
       IN  \/ /\ NoFault
              /\ scan_history' = [scan_history EXCEPT ![rec.scanId] =
                    [@ EXCEPT !.completed_at = now, !.repos_scanned = rec.reposScanned,
                              !.alerts_found = rec.alertsFound,
                              !.alerts_auto_closed = rec.alertsAutoClosed,
                              !.errors = rec.errors, !.success = 1]]
              /\ run' = [run EXCEPT ![r] = [rec EXCEPT !.pc = "done"]]
           \/ /\ Fault
              /\ scan_history' = scan_history
              /\ run' = [run EXCEPT ![r] =
                    [rec EXCEPT !.pc = "failed",
                                !.errors = Append(@, ErrorEntry("Scan failed", 0, 0))]]
    /\ UNCHANGED <<rules, alerts, now, ghOpen, dismissCalls, probeAlert, ruleResult, heurResult, lastCall,
                   auth, pages, http, race>>

\* Mutant: an outer catch that records the error in memory and returns.
FinalizeFailed_NoUpdate(r) ==
    /\ run[r].pc = "failed"
    /\ NoFault
    /\ scan_history' = scan_history
    /\ run' = [run EXCEPT ![r] = [@ EXCEPT !.pc = "done"]]
    /\ UNCHANGED <<rules, alerts, now, ghOpen, dismissCalls, probeAlert, ruleResult, heurResult, lastCall,
                   auth, pages, http, race>>

\* The outer catch: UPDATE scan_history SET completed_at = ..., success = 0 WHERE id = ?
FinalizeFailed(r) ==
    /\ run[r].pc = "failed"
    /\ LET rec == run[r]
       IN  \/ /\ NoFault
              /\ scan_history' = [scan_history EXCEPT ![rec.scanId] =
                    [@ EXCEPT !.completed_at = now, !.errors = rec.errors, !.success = 0]]
              /\ run' = [run EXCEPT ![r] = [rec EXCEPT !.pc = "done"]]
           \/ /\ Fault
              /\ scan_history' = scan_history
              /\ run' = [run EXCEPT ![r] = [rec EXCEPT !.pc = "crashed"]]
    /\ UNCHANGED <<rules, alerts, now, ghOpen, dismissCalls, probeAlert, ruleResult, heurResult, lastCall,
                   auth, pages, http, race>>

\* The clock of datetime('now') reaches the next second.
Tick ==
    /\ now <= MaxTime
    /\ now' = now + 1
    /\ lastCall' = NoCall
    /\ UNCHANGED <<rules, alerts, scan_history, ghOpen, dismissCalls, run, faults,
                   probeAlert, ruleResult, heurResult,
                   auth, pages, http, race>>

\* The state after the schema is applied and before any request or cron trigger.
Init ==
    /\ rules = DefaultRules
    /\ alerts = {}
    /\ scan_history = <<>>
    /\ now = 1
    /\ lastCall = NoCall
    /\ ghOpen = {<<repo, number>> : repo \in 1..MaxRepos, number \in 1..MaxAlerts}
    /\ dismissCalls = {}
    /\ run = [r \in Triggers |-> IdleRun]
    /\ faults = 0
    /\ probeAlert = ghAlert(1, 1)
    /\ ruleResult = NoVerdict
    /\ heurResult = NoVerdict
    /\ auth = FreshAuth
    /\ pages = NoPages
    /\ http = NoRequest
    /\ race = NoRace

\* POST /rules: INSERT INTO applicability_rules; active defaults to 1.
PostRules(body, cap) ==
    /\ Len(rules) < cap
    /\ rules' = Append(rules, [body EXCEPT !.active = 1])
    /\ UNCHANGED <<alerts, scan_history, now, ghOpen, dismissCalls, run, faults,
                   probeAlert, ruleResult, heurResult, lastCall,
                   auth, pages, http, race>>

\* The rule bodies an operator posts while scans run.
PostedRules ==
    { Rule("left-pad", "npm", NULL, NULL, NULL, 0, "dev-only", "not_used", 5, 1) }

\* The scans of the cron trigger, one after the other, while an operator posts rules.
Next ==
    \/ \E body \in PostedRules : PostRules(body, Len(DefaultRules) + MaxPosted)
    \/ \E r \in {"scheduled"} :
        \/ StartScan(r)
        \/ ListRepos(r)
        \/ FetchAlerts(r)
        \/ Classify(r)
        \/ StoreAlert(r)
        \/ Dismiss(r)
        \/ MarkAutoClosed(r)
        \/ Finalize(r)
        \/ FinalizeFailed(r)

Spec == Init /\ [][Next]_vars

\* ------------------------------------- the rule engine on its own (SpecRules)

\* The match criteria of the rules: none, each column alone, package and ecosystem.
RulePatterns ==
    { <<NULL, NULL, NULL, NULL, NULL>>,
      <<"left-pad", NULL, NULL, NULL, NULL>>,
      <<NULL, "npm", NULL, NULL, NULL>>,
      <<NULL, NULL, "GHSA-1", NULL, NULL>>,
      <<NULL, NULL, NULL, "CVE-1", NULL>>,
      <<NULL, NULL, NULL, NULL, "critical">>,
      <<"left-pad", "npm", NULL, NULL, NULL>> }

RuleOutcomes ==
    { <<0, "dev-only", "not_used">>,
      <<1, "Default: treat all alerts as applicable until reviewed", NULL>> }

RulePriorities == {-1, 5}

\* Active rules of every pattern, outcome and priority; inactive catch-all rules.
RuleUniverse ==
    { Rule(m[1], m[2], m[3], m[4], m[5], o[1], o[2], o[3], p, 1)
        : m \in RulePatterns, o \in RuleOutcomes, p \in RulePriorities }
    \cup
    { Rule(NULL, NULL, NULL, NULL, NULL, o[1], o[2], o[3], p, 0)
        : o \in RuleOutcomes, p \in RulePriorities }

RuleAlerts ==
    { Alert(1, "open", name, eco, scope, ghsa, cve, {}, sev, 1, 1)
        : name \in {"left-pad", "lodash"}, eco \in {"npm", "pip"}, scope \in Scopes,
          ghsa \in {"GHSA-1", "GHSA-2"}, cve \in {"CVE-1", NULL},
          sev \in {"critical", "low"} }

\* checkApplicability(env, alert) against the table as it is; one call is followed.
CheckRules(alert) ==
    /\ ruleResult = NoVerdict
    /\ probeAlert' = alert
    /\ ruleResult' \in checkApplicability(rules, alert)
    /\ UNCHANGED <<rules, alerts, scan_history, now, ghOpen, dismissCalls, run, faults,
                   heurResult, lastCall,
                   auth, pages, http, race>>

InitRules ==
    /\ rules \in UNION {[1..k -> RuleUniverse] : k \in 0..MaxRules}
    /\ alerts = {}
    /\ scan_history = <<>>
    /\ now = 1
    /\ lastCall = NoCall
    /\ ghOpen = {}
    /\ dismissCalls = {}
    /\ run = [r \in Triggers |-> IdleRun]
    /\ faults = 0
    /\ probeAlert = ghAlert(1, 1)
    /\ ruleResult = NoVerdict
    /\ heurResult = NoVerdict
    /\ auth = FreshAuth
    /\ pages = NoPages
    /\ http = NoRequest
    /\ race = NoRace

NextRules ==
    \/ ruleResult = NoVerdict /\ \E body \in RuleUniverse : PostRules(body, MaxRules)
    \/ \E alert \in RuleAlerts : CheckRules(alert)

SpecRules == InitRules /\ [][NextRules]_vars

\* --------------------------------- the heuristic analyzer on its own (SpecAnalyze)

AnalyzedAlerts ==
    { Alert(1, "open", name, "npm", scope, "GHSA-1", NULL, summary, sev, 1, 1)
        : name \in {"hono", "Hono", "wrangler", "zod", "left-pad"}, scope \in Scopes,
          summary \in Summaries, sev \in Severities }

\* analyzeAlertApplicability(alert); one call is followed.
Analyze(alert) ==
    /\ heurResult = NoVerdict
    /\ probeAlert' = alert
    /\ heurResult' = analyzeAlertApplicability(alert)
    /\ UNCHANGED <<rules, alerts, scan_history, now, ghOpen, dismissCalls, run, faults,
                   ruleResult, lastCall,
                   auth, pages, http, race>>

InitAnalyze ==
    /\ rules \in {<<>>, DefaultRules}
    /\ alerts = {}
    /\ scan_history = <<>>
    /\ now = 1
    /\ lastCall = NoCall
    /\ ghOpen = {}
    /\ dismissCalls = {}
    /\ run = [r \in Triggers |-> IdleRun]
    /\ faults = 0
    /\ probeAlert = ghAlert(1, 1)
    /\ ruleResult = NoVerdict
    /\ heurResult = NoVerdict
    /\ auth = FreshAuth
    /\ pages = NoPages
    /\ http = NoRequest
    /\ race = NoRace

NextAnalyze == \E alert \in AnalyzedAlerts : Analyze(alert)

SpecAnalyze == InitAnalyze /\ [][NextAnalyze]_vars

\* ------------------------------------- the alert store on its own (SpecStore)

\* Two alerts with the same number in two repositories.
StoredRepos == {1, 2}

StoredAlerts ==
    { Alert(1, state, "left-pad", "npm", "development", "GHSA-2", NULL, {}, "critical", 1, 1)
        : state \in {"open", "fixed"} }
    \cup
    { Alert(1, state, "lodash", "pip", "runtime", "GHSA-3", "CVE-3", {"dos"}, "low", 2, 2)
        : state \in {"open", "fixed"} }

\* await storeAlert(env, repo, alert, analysis) with the analyzer's verdict.
Store(repo, alert) ==
    /\ probeAlert' = alert
    /\ alerts' = storeAlert(alerts, repo, alert, analyzeAlertApplicability(alert), now)
    /\ lastCall' = [op |-> "storeAlert", repo |-> repo]
    /\ UNCHANGED <<rules, scan_history, now, ghOpen, dismissCalls, run, faults,
                   ruleResult, heurResult,
                   auth, pages, http, race>>

\* The UPDATE that follows a dismissal of a stored non-applicable alert.
Close(repo, number) ==
    /\ \E row \in Conflicting(alerts, repo, number) :
          /\ row.is_applicable = 0
          /\ alerts' = markAutoClosed(alerts, repo, number, row.applicability_reason, now)
    /\ lastCall' = [op |-> "markAutoClosed", repo |-> repo]
    /\ UNCHANGED <<rules, scan_history, now, ghOpen, dismissCalls, run, faults,
                   probeAlert, ruleResult, heurResult,
                   auth, pages, http, race>>

NextStore ==
    \/ Tick
    \/ \E repo \in StoredRepos, alert \in StoredAlerts : Store(repo, alert)
    \/ \E repo \in StoredRepos : Close(repo, 1)

SpecStore == Init /\ [][NextStore]_vars

\* ----------------------- the installation token and githubAPI (SpecToken)

\* new Date(Date.now() + 60000): the margin, in milliseconds.
Margin == 60000

\* { expirationTtl: 3500 }: the life of the KV entry, in seconds.
CacheTtl == 3500

\* The validity of the token an exchange returns, in milliseconds: two minutes,
\* and the hour GitHub gives.
Lifetimes == {2 * Margin, 60 * Margin}

\* The time between two calls, in milliseconds: around the margin and around the
\* end of the KV entry.
Advances == {Margin - 1, Margin, Margin + 1, CacheTtl * 1000 - 1, CacheTtl * 1000}

\* Where a call of githubAPI fails, if it does.
Failures == {"none", "sign", "exchange", "put", "api"}

\* env.CACHE.get('github_installation_token'): the entry, gone once its TTL has passed.
CacheGet(a) ==
    IF a.cache # NoEntry /\ a.clock < a.cache.put_at + CacheTtl * 1000
      THEN a.cache
      ELSE NoEntry

\* Mutant: the cached token taken while it has not expired, without the margin.
Fresh_NoMargin(entry, clock) == entry.expires_at > clock

\* new Date(expires_at) > new Date(Date.now() + 60000)
Fresh(entry, clock) == entry.expires_at > clock + Margin

\* Mutant: a failed exchange answered with whatever the cache holds.
getInstallationToken_Fallback(a, failure, lifetime) ==
    LET cached == CacheGet(a)
    IN  IF cached # NoEntry /\ Fresh(cached, a.clock)
          THEN [threw |-> FALSE, token |-> cached.token, auth |-> a]
        ELSE IF failure = "sign"
          THEN [threw |-> TRUE, token |-> 0, auth |-> a]
        ELSE
          LET sent == [a EXCEPT !.log = Append(@, [kind |-> "exchange", token |-> 0])]
              got == a.issued + 1
              entry == [token |-> got, expires_at |-> a.clock + lifetime, put_at |-> a.clock]
          IN  IF failure = "exchange"
                THEN [threw |-> FALSE, token |-> cached.token, auth |-> sent]
              ELSE IF failure = "put"
                THEN [threw |-> TRUE, token |-> 0, auth |-> [sent EXCEPT !.issued = got]]
              ELSE [threw |-> FALSE, token |-> got,
                    auth |-> [sent EXCEPT !.issued = got, !.cache = entry]]

\* getInstallationToken: the token, or a throw, and the cache and the network
\* calls after it. A fresh cached token is returned as it is; otherwise the
\* assertion is signed, exchanged, and the answer cached.
getInstallationToken(a, failure, lifetime) ==
    LET cached == CacheGet(a)
    IN  IF cached # NoEntry /\ Fresh(cached, a.clock)
          THEN [threw |-> FALSE, token |-> cached.token, auth |-> a]
        ELSE IF failure = "sign"
          THEN [threw |-> TRUE, token |-> 0, auth |-> a]
        ELSE
          LET sent == [a EXCEPT !.log = Append(@, [kind |-> "exchange", token |-> 0])]
              got == a.issued + 1
              entry == [token |-> got, expires_at |-> a.clock + lifetime, put_at |-> a.clock]
          IN  IF failure = "exchange"
                THEN [threw |-> TRUE, token |-> 0, auth |-> sent]
              ELSE IF failure = "put"
                THEN [threw |-> TRUE, token |-> 0, auth |-> [sent EXCEPT !.issued = got]]
              ELSE [threw |-> FALSE, token |-> got,
                    auth |-> [sent EXCEPT !.issued = got, !.cache = entry]]

\* githubAPI: the token, then the request carrying it; a throw of
\* getInstallationToken leaves before the request.
GithubAPI(failure, lifetime) ==
    /\ auth.calls < MaxCalls
    /\ LET t == getInstallationToken(auth, failure, lifetime)
           a == [t.auth EXCEPT !.calls = @ + 1, !.moved = FALSE]
       IN  auth' = IF t.threw
                     THEN [a EXCEPT !.result = "tokenThrew"]
                     ELSE [a EXCEPT !.log = Append(@, [kind |-> "api", token |-> t.token]),
                                    !.result = IF failure = "api" THEN "apiThrew" ELSE "ok"]
    /\ UNCHANGED <<rules, alerts, scan_history, now, ghOpen, dismissCalls, run, faults,
                   probeAlert, ruleResult, heurResult, lastCall, pages, http, race>>

\* Time passes between two calls.
Advance(d) ==
    /\ ~auth.moved
    /\ auth.calls < MaxCalls
    /\ auth' = [auth EXCEPT !.clock = @ + d, !.moved = TRUE]
    /\ UNCHANGED <<rules, alerts, scan_history, now, ghOpen, dismissCalls, run, faults,
                   probeAlert, ruleResult, heurResult, lastCall, pages, http, race>>

NextToken ==
    \/ \E failure \in Failures, lifetime \in Lifetimes : GithubAPI(failure, lifetime)
    \/ \E d \in Advances : Advance(d)

SpecToken == Init /\ [][NextToken]_vars

\* --------------- two callers of getInstallationToken at once (SpecRace)

\* A caller enters getInstallationToken (through githubAPI).
EnterToken(c) ==
    /\ race.pc[c] = "idle"
    /\ race' = [race EXCEPT !.pc[c] = "get"]
    /\ UNCHANGED <<rules, alerts, scan_history, now, ghOpen, dismissCalls, run, faults,
                   probeAlert, ruleResult, heurResult, lastCall, auth, pages, http>>

\* await env.CACHE.get(...), then the test of the cached entry: a fresh token
\* is returned, anything else goes on to the signature.
ReadCache(c) ==
    /\ race.pc[c] = "get"
    /\ LET cached == CacheGet(auth)
       IN  race' = IF cached # NoEntry /\ Fresh(cached, auth.clock)
                     THEN [race EXCEPT !.pc[c] = "returned", !.hit[c] = TRUE,
                                       !.returned[c] = cached.token]
                     ELSE [race EXCEPT !.pc[c] = "sign"]
    /\ UNCHANGED <<rules, alerts, scan_history, now, ghOpen, dismissCalls, run, faults,
                   probeAlert, ruleResult, heurResult, lastCall, auth, pages, http>>

\* await generateAppJWT(...): the assertion, or a throw.
SignAssertion(c, ok) ==
    /\ race.pc[c] = "sign"
    /\ race' = [race EXCEPT !.pc[c] = IF ok THEN "exchange" ELSE "threw"]
    /\ UNCHANGED <<rules, alerts, scan_history, now, ghOpen, dismissCalls, run, faults,
                   probeAlert, ruleResult, heurResult, lastCall, auth, pages, http>>

\* await fetch(.../access_tokens), the test of response.ok and response.json():
\* upstream issues a new token with its own expiry, or the call throws.
ExchangeToken(c, ok, lifetime) ==
    /\ race.pc[c] = "exchange"
    /\ IF ok
         THEN LET data == [token |-> auth.issued + 1, expires_at |-> auth.clock + lifetime,
                           put_at |-> 0]
              IN  /\ auth' = [auth EXCEPT !.issued = @ + 1,
                                         !.log = Append(@, [kind |-> "exchange", token |-> 0])]
                  /\ race' = [race EXCEPT !.pc[c] = "put", !.data[c] = data,
                                         !.exchanged = @ \cup {data}]
         ELSE /\ auth' = [auth EXCEPT !.log = Append(@, [kind |-> "exchange", token |-> 0])]
              /\ race' = [race EXCEPT !.pc[c] = "threw"]
    /\ UNCHANGED <<rules, alerts, scan_history, now, ghOpen, dismissCalls, run, faults,
                   probeAlert, ruleResult, heurResult, lastCall, pages, http>>

\* Mutant: a put that writes the token and leaves the expiry of the entry it
\* finds in the cache.
CachePut_KeepExpiry(a, data) ==
    IF a.cache = NoEntry
      THEN [data EXCEPT !.put_at = a.clock]
      ELSE [data EXCEPT !.put_at = a.clock, !.expires_at = a.cache.expires_at]

\* env.CACHE.put(key, JSON.stringify(data), ...): the entry the key holds after
\* it; token and expiry are one value.
CachePut(a, data) == [data EXCEPT !.put_at = a.clock]

\* await env.CACHE.put(...); return data.token
PutAndReturn(c, ok) ==
    /\ race.pc[c] = "put"
    /\ IF ok
         THEN /\ auth' = [auth EXCEPT !.cache = CachePut(auth, race.data[c])]
              /\ race' = [race EXCEPT !.pc[c] = "returned", !.returned[c] = race.data[c].token]
         ELSE /\ auth' = auth
              /\ race' = [race EXCEPT !.pc[c] = "threw"]
    /\ UNCHANGED <<rules, alerts, scan_history, now, ghOpen, dismissCalls, run, faults,
                   probeAlert, ruleResult, heurResult, lastCall, pages, http>>

\* Time passes while the callers are suspended.
Elapse(d) ==
    /\ ~auth.moved
    /\ auth' = [auth EXCEPT !.clock = @ + d, !.moved = TRUE]
    /\ UNCHANGED <<rules, alerts, scan_history, now, ghOpen, dismissCalls, run, faults,
                   probeAlert, ruleResult, heurResult, lastCall, pages, http, race>>

NextRace ==
    \/ \E c \in Callers :
          \/ EnterToken(c)
          \/ ReadCache(c)
          \/ \E ok \in BOOLEAN : SignAssertion(c, ok)
          \/ \E ok \in BOOLEAN, lifetime \in Lifetimes : ExchangeToken(c, ok, lifetime)
          \/ \E ok \in BOOLEAN : PutAndReturn(c, ok)
    \/ \E d \in Advances : Elapse(d)

SpecRace == Init /\ [][NextRace]_vars

\* ------------------------------ the list operations on their own (SpecPages)

\* per_page=100 in both list requests.
PerPage == 100

\* The number of items on page `page` of an upstream list of `total` items.
PageLen(total, page) ==
    LET rest == total - (page - 1) * PerPage
    IN  IF rest <= 0 THEN 0 ELSE IF rest < PerPage THEN rest ELSE PerPage

ListOps == {"listOrgRepos", "getDependabotAlerts"}

\* listOrgRepos: one turn of `while (true)`: the page, the test for an empty
\* batch, the push, page++.
ListOrgReposPage ==
    /\ pages.op = "listOrgRepos"
    /\ ~pages.done
    /\ LET batch == PageLen(pages.total, pages.page)
       IN  pages' = IF batch = 0
                      THEN [pages EXCEPT !.requests = @ + 1, !.done = TRUE]
                      ELSE [pages EXCEPT !.requests = @ + 1, !.got = @ + batch,
                                         !.page = @ + 1]
    /\ UNCHANGED <<rules, alerts, scan_history, now, ghOpen, dismissCalls, run, faults,
                   probeAlert, ruleResult, heurResult, lastCall, auth, http, race>>

\* getDependabotAlerts: its one request, and the return of what it answered.
GetAlertsPage ==
    /\ pages.op = "getDependabotAlerts"
    /\ ~pages.done
    /\ pages' = [pages EXCEPT !.requests = @ + 1, !.got = PageLen(pages.total, 1),
                              !.done = TRUE]
    /\ UNCHANGED <<rules, alerts, scan_history, now, ghOpen, dismissCalls, run, faults,
                   probeAlert, ruleResult, heurResult, lastCall, auth, http, race>>

InitPages ==
    /\ rules = DefaultRules
    /\ alerts = {}
    /\ scan_history = <<>>
    /\ now = 1
    /\ lastCall = NoCall
    /\ ghOpen = {}
    /\ dismissCalls = {}
    /\ run = [r \in Triggers |-> IdleRun]
    /\ faults = 0
    /\ probeAlert = ghAlert(1, 1)
    /\ ruleResult = NoVerdict
    /\ heurResult = NoVerdict
    /\ auth = FreshAuth
    /\ http = NoRequest
    /\ race = NoRace
    /\ pages \in {[NoPages EXCEPT !.op = op, !.total = total] :
                    op \in ListOps, total \in 0..MaxListed}

NextPages == ListOrgReposPage \/ GetAlertsPage

SpecPages == InitPages /\ [][NextPages]_vars

\* ------------------------------------- the HTTP endpoints (SpecAdmin)

Routes ==
    {"GET /", "POST /webhook", "POST /scan", "GET /alerts", "GET /scans", "GET /rules",
     "POST /rules", "POST /alerts/:repo/:alertNumber/dismiss", "GET /stats"}

\* The routes registered with the adminAuth middleware.
AdminRoutes == Routes \ {"GET /", "POST /webhook"}

\* The routes whose handler only reads the database.
ReadRoutes == {"GET /alerts", "GET /scans", "GET /rules", "GET /stats"}

\* c.env.ADMIN_API_KEY, as configured.
ADMIN_API_KEY == "secret"

\* What the X-Admin-Key header or the key query parameter holds: absent, empty,
\* another key, the configured key.
Keys == {NULL, "", "wrong", ADMIN_API_KEY}

\* Mutant: a middleware that rejects a wrong key and lets a missing one through.
adminAuth_MissingKeyPasses(header, query) ==
    LET key == IF header \notin {NULL, ""} THEN header ELSE query
    IN  key \in {NULL, "", ADMIN_API_KEY}

\* adminAuth: key = header || query; next() is reached iff key === ADMIN_API_KEY.
adminAuth(header, query) ==
    LET key == IF header \notin {NULL, ""} THEN header ELSE query
    IN  key = ADMIN_API_KEY

\* JSON values of a request body, by type.
Undefined == [t |-> "undefined", s |-> "", n |-> 0]
JsNull == [t |-> "null", s |-> "", n |-> 0]
Str(x) == [t |-> "string", s |-> x, n |-> 0]
Num(x) == [t |-> "number", s |-> "", n |-> x]

RuleBody(name, ecosystem, is_applicable, reason, dismiss_reason, priority) ==
    [package_name |-> name, package_ecosystem |-> ecosystem, ghsa_id |-> Undefined,
     cve_id |-> JsNull, severity |-> Undefined, is_applicable |-> is_applicable,
     reason |-> reason, dismiss_reason |-> dismiss_reason, priority |-> priority]

\* No body: the requests other than POST /rules.
NoBody == RuleBody(Undefined, Undefined, Undefined, Undefined, Undefined, Undefined)

\* The payloads sent to POST /rules: three that satisfy the schema (complete,
\* minimal, with an empty package name) and five that do not.
RuleBodies ==
    { RuleBody(Str("left-pad"), Str("npm"), Num(0), Str("dev-only"), Str("not_used"), Num(5)),
      RuleBody(Undefined, Undefined, Num(1), Str("review"), Undefined, Undefined),
      RuleBody(Str(""), JsNull, Num(1), Str("review"), JsNull, Num(0)),
      RuleBody(Str("left-pad"), Str("npm"), Undefined, Str("dev-only"), Str("not_used"), Num(5)),
      RuleBody(Str("left-pad"), Str("npm"), Num(0), Undefined, Str("not_used"), Num(5)),
      RuleBody(Str("left-pad"), Str("npm"), Str("0"), Str("dev-only"), Str("not_used"), Num(5)),
      RuleBody(Str("left-pad"), Str("npm"), Num(0), Str("dev-only"), Str("not_used"), Str("5")),
      RuleBody(Num(7), Str("npm"), Num(0), Str("dev-only"), Str("not_used"), Num(5)) }

\* z.string().nullable().optional()
OptionalString(v) == v.t \in {"string", "null", "undefined"}

\* schema.parse(body) returns (TRUE) or throws a ZodError (FALSE).
SchemaAccepts(body) ==
    /\ OptionalString(body.package_name) /\ OptionalString(body.package_ecosystem)
    /\ OptionalString(body.ghsa_id) /\ OptionalString(body.cve_id)
    /\ OptionalString(body.severity) /\ OptionalString(body.dismiss_reason)
    /\ body.is_applicable.t = "number"
    /\ body.reason.t = "string"
    /\ body.priority.t \in {"number", "undefined"}

\* rule.x || null for the optional text columns.
OrNull(v) == IF v.t = "string" /\ v.s # "" THEN v.s ELSE NULL

\* The row POST /rules binds from a parsed body; priority defaults to 0.
BoundRule(body) ==
    Rule(OrNull(body.package_name), OrNull(body.package_ecosystem), OrNull(body.ghsa_id),
         OrNull(body.cve_id), OrNull(body.severity), body.is_applicable.n, body.reason.s,
         OrNull(body.dismiss_reason),
         IF body.priority.t = "number" THEN body.priority.n ELSE 0, 1)

\* The answer Hono gives when a handler throws and the app registers no
\* error handler.
InternalServerError == 500

\* GET /alerts?state=...: SELECT ... FROM alerts WHERE state = ?
SelectByState(table, state) == {row \in table : row.state = state}

\* GET /stats: SELECT COUNT(*) as total FROM alerts WHERE state = 'open'
total_open(table) == Cardinality({row \in table : row.state = "open"})

\* A request arrives and passes through adminAuth where the route has it.
Receive(route, header, query, body) ==
    /\ http = NoRequest
    /\ http' = [route |-> route, header |-> header, query |-> query, body |-> body,
                status |-> IF route \in AdminRoutes /\ ~adminAuth(header, query)
                             THEN 401 ELSE 0,
                effects |-> {}]
    /\ UNCHANGED <<rules, alerts, scan_history, now, ghOpen, dismissCalls, run, faults,
                   probeAlert, ruleResult, heurResult, lastCall, auth, pages, race>>

\* GET / and POST /webhook: an answer, nothing read or written.
HandleOpen ==
    /\ http.status = 0
    /\ http.route \in {"GET /", "POST /webhook"}
    /\ http' = [http EXCEPT !.status = 200]
    /\ UNCHANGED <<rules, alerts, scan_history, now, ghOpen, dismissCalls, run, faults,
                   probeAlert, ruleResult, heurResult, lastCall, auth, pages, race>>

\* GET /alerts, /scans, /rules, /stats: SELECTs and the answer.
HandleRead ==
    /\ http.status = 0
    /\ http.route \in ReadRoutes
    /\ \/ NoFault /\ http' = [http EXCEPT !.status = 200, !.effects = {"db_read"}]
       \/ Fault /\ http' = [http EXCEPT !.status = InternalServerError, !.effects = {"db_read"}]
    /\ UNCHANGED <<rules, alerts, scan_history, now, ghOpen, dismissCalls, run,
                   probeAlert, ruleResult, heurResult, lastCall, auth, pages, race>>

\* POST /rules: schema.parse, the INSERT, { success: true }.
HandlePostRules ==
    /\ http.status = 0
    /\ http.route = "POST /rules"
    /\ IF SchemaAccepts(http.body)
         THEN /\ rules' = Append(rules, BoundRule(http.body))
              /\ http' = [http EXCEPT !.status = 200, !.effects = {"db_write"}]
         ELSE /\ rules' = rules
              /\ http' = [http EXCEPT !.status = InternalServerError]
    /\ UNCHANGED <<alerts, scan_history, now, ghOpen, dismissCalls, run, faults,
                   probeAlert, ruleResult, heurResult, lastCall, auth, pages, race>>

\* body.reason of a dismissal request: JSON the handler destructures and hands
\* on without a check: a reason of the upstream enum, another string, or none
\* (undefined, which JSON.stringify leaves out of the PATCH body).
BodyReasons == DismissReasons \cup {"wontfix", NULL}

\* POST /alerts/:repo/:alertNumber/dismiss: dismissAlert with the body's reason.
HandleDismiss(repo, number, reason) ==
    /\ http.status = 0
    /\ http.route = "POST /alerts/:repo/:alertNumber/dismiss"
    /\ \/ /\ NoFault
          /\ dismissCalls' = dismissCalls \cup
                {[DismissRequest(repo, number, reason, NULL, TRUE) EXCEPT !.via = "manual"]}
          /\ ghOpen' = ghOpen \ {<<repo, number>>}
          /\ http' = [http EXCEPT !.status = 200, !.effects = {"upstream"}]
       \/ /\ Fault
          /\ dismissCalls' = dismissCalls \cup
                {[DismissRequest(repo, number, reason, NULL, FALSE) EXCEPT !.via = "manual"]}
          /\ ghOpen' = ghOpen
          /\ http' = [http EXCEPT !.status = InternalServerError, !.effects = {"upstream"}]
    /\ UNCHANGED <<rules, alerts, scan_history, now, run,
                   probeAlert, ruleResult, heurResult, lastCall, auth, pages, race>>

\* POST /scan: return c.json(await runSecurityScan(c.env, 'manual')).
ScanAnswers ==
    /\ http.status = 0
    /\ http.route = "POST /scan"
    /\ run["manual"].pc \in {"done", "crashed"}
    /\ http' = [http EXCEPT !.status = IF run["manual"].pc = "done"
                                         THEN 200 ELSE InternalServerError,
                            !.effects = {"scan"}]
    /\ UNCHANGED <<rules, alerts, scan_history, now, ghOpen, dismissCalls, run, faults,
                   probeAlert, ruleResult, heurResult, lastCall, auth, pages, race>>

\* One request to the worker, and the manual scan it may start.
NextAdmin ==
    \/ \E route \in Routes, header \in Keys, query \in Keys :
          \E body \in IF route = "POST /rules" THEN RuleBodies ELSE {NoBody} :
              Receive(route, header, query, body)
    \/ HandleOpen
    \/ HandleRead
    \/ HandlePostRules
    \/ \E repo \in 1..MaxRepos, reason \in BodyReasons : HandleDismiss(repo, 1, reason)
    \/ (http.status = 0 /\ http.route = "POST /scan" /\ run["manual"].pc = "idle"
          /\ StartScan("manual"))
    \/ ListRepos("manual")
    \/ FetchAlerts("manual")
    \/ Classify("manual")
    \/ StoreAlert("manual")
    \/ Dismiss("manual")
    \/ MarkAutoClosed("manual")
    \/ Finalize("manual")
    \/ FinalizeFailed("manual")
    \/ ScanAnswers

SpecAdmin == Init /\ [][NextAdmin]_vars

\* ------------------------- a manual scan during a scheduled one (SpecOverlap)

\* The state before the cron trigger fires, with one failure left to inject:
\* the failures of a run on its own are followed under Spec.
InitOverlap ==
    /\ rules = DefaultRules
    /\ alerts = {}
    /\ scan_history = <<>>
    /\ now = 1
    /\ lastCall = NoCall
    /\ ghOpen = {<<repo, number>> : repo \in 1..MaxRepos, number \in 1..MaxAlerts}
    /\ dismissCalls = {}
    /\ run = [r \in Triggers |-> IdleRun]
    /\ faults = MaxFaults - 1
    /\ probeAlert = ghAlert(1, 1)
    /\ ruleResult = NoVerdict
    /\ heurResult = NoVerdict
    /\ auth = FreshAuth
    /\ pages = NoPages
    /\ http = NoRequest
    /\ race = NoRace

\* The cron trigger calls runSecurityScan; POST /scan calls it again while that
\* execution is suspended at an await, and the isolate interleaves the two
\* executions at their awaits.
NextOverlap ==
    \/ (run["scheduled"].pc = "idle" /\ StartScan("scheduled"))
    \/ (InFlight("scheduled") /\ run["manual"].pc = "idle" /\ StartScan("manual"))
    \/ \E r \in Triggers :
        \/ ListRepos(r)
        \/ FetchAlerts(r)
        \/ Classify(r)
        \/ StoreAlert(r)
        \/ Dismiss(r)
        \/ MarkAutoClosed(r)
        \/ Finalize(r)
        \/ FinalizeFailed(r)

SpecOverlap == InitOverlap /\ [][NextOverlap]_vars

\* ====================================================================== claims

\* The scan_history row of the execution r.
HistoryRow(r) == scan_history[run[r].scanId]

\* The run r has returned after the UPDATE that sets success = 1.
Completed(r) == run[r].pc = "done" /\ HistoryRow(r).success = 1

C2_SeverityFloor ==
    ( /\ heurResult # NoVerdict
      /\ probeAlert.severity \in {"critical", "high"}
      /\ \A i \in ActiveRows(rules) : ~matches(rules[i], probeAlert) )
    => heurResult.applicable

\* C3 as stated: the verdict a scan run takes for an alert is one the rule table
\* gives for it at classification time.
C3_ScanUsesRuleTable ==
    [][\A r \in Triggers :
          (run[r].pc = "classify" /\ run'[r].pc # "classify") =>
              run'[r].analysis \in checkApplicability(rules, CurrentAlert(run[r]))]_vars

\* The verdict checkApplicability builds from a rule.
RuleVerdict(rule) == Verdict(rule.is_applicable = 1, rule.reason, rule.dismiss_reason)

Fallback == Verdict(TRUE, "No matching rule - treating as applicable", NULL)

\* C4: when active rules match the alert, checkApplicability returns the verdict,
\* reason and dismissal reason of a matching active rule that no matching active
\* rule exceeds in priority, wherever the rules stand in insertion order; the
\* verdict of an inactive rule is returned only if an active rule gives it too.
C4_RulePrecedence ==
    ruleResult # NoVerdict =>
        LET hits == {i \in DOMAIN rules : rules[i].active = 1 /\ matches(rules[i], probeAlert)}
        IN  hits # {} =>
                \E i \in hits :
                    /\ ruleResult = RuleVerdict(rules[i])
                    /\ \A j \in hits : rules[j].priority <= rules[i].priority

\* C4 witness: two active rules with different priorities and different
\* verdicts match the alert, the one of lower priority inserted first, and the
\* answer is the later, higher-priority rule's.
C4_Witness ==
    /\ ruleResult # NoVerdict
    /\ Len(rules) = 2
    /\ rules[1].active = 1 /\ rules[2].active = 1
    /\ matches(rules[1], probeAlert) /\ matches(rules[2], probeAlert)
    /\ rules[1].priority < rules[2].priority
    /\ rules[1].is_applicable # rules[2].is_applicable
    /\ ruleResult = RuleVerdict(rules[2])

\* A rule's five match columns each are NULL or equal to the alert's field.
FiveFieldsAgree(rule, alert) ==
    /\ rule.package_name \in {NULL, alert.package_name}
    /\ rule.package_ecosystem \in {NULL, alert.package_ecosystem}
    /\ rule.ghsa_id \in {NULL, alert.ghsa_id}
    /\ rule.cve_id \in {NULL, alert.cve_id}
    /\ rule.severity \in {NULL, alert.severity}

LeftPadRule == Rule("left-pad", "npm", NULL, NULL, NULL, 0, "dev-only", "not_used", 5, 1)
CatchAllRule == DefaultRules[2]

\* C5: checkApplicability answers with the verdict of an active rule whose five
\* match columns each are NULL or equal to the alert's field, and with the
\* fallback exactly when no active rule is such; the alert's scope takes no part
\* (the answer is one the alert with the other scope gets too). With the left-pad/npm
\* rule and the catch-all, in either order, a left-pad/npm alert is non-applicable
\* with reason dev-only for both scopes.
C5_MatchOnFiveFields ==
    ruleResult # NoVerdict =>
        LET hits == {i \in DOMAIN rules : rules[i].active = 1 /\ FiveFieldsAgree(rules[i], probeAlert)}
        IN  /\ hits = {} => ruleResult = Fallback
            /\ hits # {} => \E i \in hits : ruleResult = RuleVerdict(rules[i])
            /\ \A scope \in Scopes \ {probeAlert.scope} :
                    ruleResult \in checkApplicability(rules, [probeAlert EXCEPT !.scope = scope])
            /\ ( /\ rules \in {<<LeftPadRule, CatchAllRule>>, <<CatchAllRule, LeftPadRule>>}
                 /\ probeAlert.package_name = "left-pad"
                 /\ probeAlert.package_ecosystem = "npm" )
               => (~ruleResult.applicable /\ ruleResult.reason = "dev-only")

\* C5 witness: the left-pad/npm rule and the catch-all, a left-pad/npm alert of
\* scope runtime, classified non-applicable with reason dev-only.
C5_Witness ==
    /\ rules = <<CatchAllRule, LeftPadRule>>
    /\ probeAlert.package_name = "left-pad"
    /\ probeAlert.package_ecosystem = "npm"
    /\ probeAlert.scope = "runtime"
    /\ ruleResult = Verdict(FALSE, "dev-only", "not_used")

IsCatchAll(rule) ==
    /\ rule.package_name = NULL /\ rule.package_ecosystem = NULL /\ rule.ghsa_id = NULL
    /\ rule.cve_id = NULL /\ rule.severity = NULL

\* C6 (as amended): with a table that holds only an active catch-all rule with
\* is_applicable = 1, every alert classifies applicable with that rule's own
\* reason and dismissal reason; the fallback reason "No matching rule - treating
\* as applicable" is returned only when no active rule matches the alert.
C6_CatchAllGivesItsOwnReason ==
    ruleResult # NoVerdict =>
        /\ ( Len(rules) = 1 /\ IsCatchAll(rules[1]) /\ rules[1].active = 1
             /\ rules[1].is_applicable = 1 )
           => ( /\ ruleResult.applicable
                /\ ruleResult.reason = rules[1].reason
                /\ ruleResult.dismissReason = rules[1].dismiss_reason )
        /\ ruleResult.reason = "No matching rule - treating as applicable"
           => \A i \in ActiveRows(rules) : ~matches(rules[i], probeAlert)

\* C6 witness: the schema's catch-all alone, an alert classified applicable with
\* the reason of that rule.
C6_Witness ==
    /\ rules = <<CatchAllRule>>
    /\ ruleResult = Verdict(TRUE, "Default: treat all alerts as applicable until reviewed", NULL)

\* C6 as stated: with a table that holds only a catch-all rule, every alert
\* classifies applicable with the reason "no matching rule".
C6_Original ==
    (ruleResult # NoVerdict /\ Len(rules) = 1 /\ IsCatchAll(rules[1])) =>
        (ruleResult.applicable /\ ruleResult.reason = "no matching rule")

\* The rows of a table are pairwise distinct in (repository, alert kind, upstream id).
OneRowPerKey(table) ==
    \A a, b \in table :
        ( /\ a.repo_full_name = b.repo_full_name /\ a.alert_type = b.alert_type
          /\ a.github_alert_id = b.github_alert_id ) => a = b

\* C7 (as amended): after any storeAlert calls the alerts table holds at most
\* one row per (repo_full_name, alert_type, github_alert_id); a storeAlert call
\* for a key that has a row leaves the number of rows and first_seen_at
\* unchanged and sets last_checked_at to the second of the call, which is never
\* earlier than the value it had.
C7_UpsertIsIdempotent ==
    [][ /\ OneRowPerKey(alerts')
        /\ lastCall'.op = "storeAlert" =>
              LET old == Conflicting(alerts, lastCall'.repo, probeAlert'.number)
                  new == Conflicting(alerts', lastCall'.repo, probeAlert'.number)
              IN  /\ Cardinality(new) = 1
                  /\ old # {} =>
                        /\ Cardinality(alerts') = Cardinality(alerts)
                        /\ \A o \in old : \E n \in new :
                              /\ n.first_seen_at = o.first_seen_at
                              /\ n.last_checked_at = now
                              /\ n.last_checked_at >= o.last_checked_at ]_vars

\* C7 witness: one row, stored again after its first second.
C7_Witness ==
    /\ lastCall.op = "storeAlert"
    /\ Cardinality(alerts) = 1
    /\ \E row \in Conflicting(alerts, lastCall.repo, probeAlert.number) :
          row.first_seen_at < row.last_checked_at /\ row.last_checked_at = now

\* C7 as stated: a storeAlert call for a key that has a row leaves the number
\* of rows and first_seen_at unchanged and advances last_checked_at.
C7_Original ==
    [][ lastCall'.op = "storeAlert" =>
          LET old == Conflicting(alerts, lastCall'.repo, probeAlert'.number)
              new == Conflicting(alerts', lastCall'.repo, probeAlert'.number)
          IN  old # {} =>
                /\ Cardinality(alerts') = Cardinality(alerts)
                /\ \A o \in old : \E n \in new :
                      /\ n.first_seen_at = o.first_seen_at
                      /\ n.last_checked_at > o.last_checked_at ]_vars

\* C8: a storeAlert call that hits a row sets its state, is_applicable,
\* applicability_reason and last_checked_at from the call, and leaves its id,
\* first_seen_at, github_created_at, github_updated_at, auto_closed with its
\* time and reason, severity, package, ecosystem, advisory ids and summary as
\* they were.
C8_ConflictKeepsHistory ==
    [][ lastCall'.op = "storeAlert" =>
          LET old == Conflicting(alerts, lastCall'.repo, probeAlert'.number)
              new == Conflicting(alerts', lastCall'.repo, probeAlert'.number)
              analysis == analyzeAlertApplicability(probeAlert')
          IN  \A o \in old : \E n \in new :
                /\ n.state = probeAlert'.state
                /\ n.is_applicable = (IF analysis.applicable THEN 1 ELSE 0)
                /\ n.applicability_reason = analysis.reason
                /\ n.last_checked_at = now
                /\ n.id = o.id
                /\ n.first_seen_at = o.first_seen_at
                /\ n.github_created_at = o.github_created_at
                /\ n.github_updated_at = o.github_updated_at
                /\ n.auto_closed = o.auto_closed
                /\ n.auto_closed_at = o.auto_closed_at
                /\ n.auto_closed_reason = o.auto_closed_reason
                /\ n.severity = o.severity
                /\ n.package_name = o.package_name
                /\ n.package_ecosystem = o.package_ecosystem
                /\ n.ghsa_id = o.ghsa_id
                /\ n.cve_id = o.cve_id
                /\ n.summary = o.summary ]_vars

\* C8 witness: an auto-closed row stored again, later, from a payload of another
\* severity, package and creation time: the verdict is the new payload's, the
\* severity, the creation time and the auto_closed flag are the old ones.
C8_Witness ==
    /\ lastCall.op = "storeAlert"
    /\ \E row \in Conflicting(alerts, lastCall.repo, probeAlert.number) :
          /\ row.auto_closed = 1
          /\ row.severity # probeAlert.severity
          /\ row.package_name # probeAlert.package_name
          /\ row.github_created_at # probeAlert.created_at
          /\ row.first_seen_at < row.last_checked_at
          /\ row.is_applicable = 1
          /\ row.applicability_reason = analyzeAlertApplicability(probeAlert).reason

\* C9: in a scan run a dismissal is requested only for an alert classified
\* non-applicable with a dismissal reason, and with that reason; an alert whose
\* stored verdict is applicable has no dismissal request and is not auto-closed;
\* the branch after the store write chooses the dismissal exactly for a verdict
\* that is non-applicable and carries a dismissal reason.
C9_DismissOnlyNonApplicable ==
    /\ \A c \in dismissCalls :
          c.via = "runSecurityScan" =>
              LET analysis == analyzeAlertApplicability(ghAlert(c.repo, c.number))
              IN  /\ ~analysis.applicable
                  /\ analysis.dismissReason # NULL
                  /\ c.dismissed_reason = analysis.dismissReason
    /\ \A r \in Triggers :
          run[r].pc \in {"dismiss", "mark"} =>
              (~run[r].analysis.applicable /\ run[r].analysis.dismissReason # NULL)
    /\ \A applicable \in BOOLEAN, dismissReason \in DismissReasons \cup {NULL} :
          AfterStore(Verdict(applicable, "reason", dismissReason)) = "dismiss"
              <=> (~applicable /\ dismissReason # NULL)
    /\ \A row \in alerts :
          row.is_applicable = 1 =>
              /\ row.auto_closed = 0
              /\ \A c \in dismissCalls :
                    ~(c.repo = row.repo_full_name /\ c.number = row.github_alert_id)

\* C9 witness: a repository with one alert dismissed upstream and another stored
\* as applicable and left alone.
C9_Witness ==
    \E c \in dismissCalls, row \in alerts :
        /\ c.ok
        /\ row.repo_full_name = c.repo
        /\ row.is_applicable = 1
        /\ <<row.repo_full_name, row.github_alert_id>> \in ghOpen

\* C10: a run stores an alert only once it is classified and requests its
\* dismissal only once its row is stored with is_applicable = 0: whenever a
\* dismissal is about to be issued, has been issued, or has closed the alert
\* upstream, the alerts table holds the alert's row with is_applicable = 0.
C10_StoredBeforeDismissed ==
    /\ \A r \in Triggers :
          /\ run[r].pc = "store" => run[r].analysis # NoVerdict
          /\ run[r].pc = "dismiss" =>
                \E row \in Conflicting(alerts, CurrentRepo(run[r]), CurrentAlert(run[r]).number) :
                    row.is_applicable = 0
    /\ \A c \in dismissCalls :
          c.via = "runSecurityScan" =>
              \E row \in Conflicting(alerts, c.repo, c.number) : row.is_applicable = 0
    /\ \A repo \in 1..MaxRepos, number \in 1..MaxAlerts :
          <<repo, number>> \notin ghOpen =>
              \E row \in Conflicting(alerts, repo, number) : row.is_applicable = 0

\* C10 witness: a run stopped between the store write and the dismissal: the row
\* says non-applicable and not auto-closed, the alert is still open upstream.
C10_Witness ==
    \E r \in Triggers :
        /\ run[r].pc = "dismiss"
        /\ <<CurrentRepo(run[r]), CurrentAlert(run[r]).number>> \in ghOpen
        /\ \E row \in Conflicting(alerts, CurrentRepo(run[r]), CurrentAlert(run[r]).number) :
              row.is_applicable = 0 /\ row.auto_closed = 0

\* C11: when the upstream dismissal call for an alert fails, the run appends one
\* error entry naming the repository and the alert number, leaves
\* alertsAutoClosed, the alerts table (the alert's row has auto_closed = 0) and
\* the upstream state as they were, and goes on with the next alert of the
\* repository, else the next repository, else the final update; a run whose only
\* errors are such entries returns with success = 1 and every repository scanned.
C11_DismissFailureIsolated ==
    [][\A r \in Triggers :
         /\ (run[r].pc = "dismiss" /\ run'[r] # run[r] /\ faults' # faults) =>
               LET rec == run[r]
                   repo == CurrentRepo(rec)
                   number == CurrentAlert(rec).number
               IN  /\ run'[r].errors =
                          Append(rec.errors, ErrorEntry("Failed to dismiss", repo, number))
                   /\ run'[r].alertsAutoClosed = rec.alertsAutoClosed
                   /\ alerts' = alerts
                   /\ \E row \in Conflicting(alerts', repo, number) : row.auto_closed = 0
                   /\ ghOpen' = ghOpen
                   /\ run'[r].pc = IF rec.idx < Len(rec.alerts) THEN "classify"
                                   ELSE IF rec.repo < Len(rec.repos) THEN "fetch"
                                   ELSE "finalize"
                   /\ rec.idx < Len(rec.alerts) =>
                          (run'[r].idx = rec.idx + 1 /\ run'[r].repo = rec.repo)
                   /\ (rec.idx = Len(rec.alerts) /\ rec.repo < Len(rec.repos)) =>
                          run'[r].repo = rec.repo + 1
         /\ ( /\ run'[r].pc = "done"
              /\ run'[r].errors # <<>>
              /\ \A k \in DOMAIN run'[r].errors : run'[r].errors[k].msg = "Failed to dismiss" )
            => /\ scan_history'[run'[r].scanId].success = 1
               /\ scan_history'[run'[r].scanId].errors = run'[r].errors
               /\ run'[r].reposScanned = Len(run'[r].repos) ]_vars

\* C11 witness: a returned run whose dismissal of alert 1 of repository 1 failed:
\* one error entry naming it, its row not auto-closed, the alert open upstream,
\* the two later dismissals counted, every repository scanned, success = 1.
C11_Witness ==
    \E r \in Triggers :
        /\ run[r].pc = "done"
        /\ faults = 1
        /\ run[r].errors = <<ErrorEntry("Failed to dismiss", 1, 1)>>
        /\ \E c \in dismissCalls : c.repo = 1 /\ c.number = 1 /\ ~c.ok
        /\ \E row \in Conflicting(alerts, 1, 1) : row.auto_closed = 0
        /\ <<1, 1>> \in ghOpen
        /\ HistoryRow(r).success = 1
        /\ HistoryRow(r).alerts_auto_closed = 2
        /\ HistoryRow(r).repos_scanned = 3
        /\ \A repo \in 1..3, number \in 1..2 : Conflicting(alerts, repo, number) # {}

\* The rows of the alerts table that are marked auto-closed.
AutoClosedRows(table) == {row \in table : row.auto_closed = 1}

\* C12 (as amended): after a successful upstream dismissal the run counts the
\* alert and then issues the UPDATE that marks its row; when the UPDATE succeeds
\* the row has auto_closed = 1 with the time and the reason, when it fails the
\* row stays auto_closed = 0, the alert stays counted and dismissed upstream and
\* a "Failed to dismiss" entry names it. Every marked row carries a time and a
\* reason and belongs to an alert dismissed upstream. At the end of the first
\* run the marked rows are at most alerts_auto_closed, and as many when the run
\* has no "Failed to dismiss" entry (a failed storeAlert does not break this).
C12_AutoClosedMarking ==
    [][ /\ \A r \in Triggers :
             (run[r].pc = "mark" /\ run'[r] # run[r]) =>
               LET rec == run[r]
                   repo == CurrentRepo(rec)
                   number == CurrentAlert(rec).number
                   old == Conflicting(alerts, repo, number)
               IN  /\ <<repo, number>> \notin ghOpen
                   /\ run'[r].alertsAutoClosed = rec.alertsAutoClosed
                   /\ old # {}
                   /\ faults' = faults =>
                         /\ Conflicting(alerts', repo, number) =
                               {[row EXCEPT !.auto_closed = 1, !.auto_closed_at = now,
                                            !.auto_closed_reason = rec.analysis.reason]
                                  : row \in old}
                         /\ alerts' \ Conflicting(alerts', repo, number) = alerts \ old
                         /\ run'[r].errors = rec.errors
                   /\ faults' # faults =>
                         /\ alerts' = alerts
                         /\ run'[r].errors =
                               Append(rec.errors, ErrorEntry("Failed to dismiss", repo, number))
        /\ \A row \in AutoClosedRows(alerts') :
             /\ row.auto_closed_at # 0
             /\ row.auto_closed_reason # NULL
             /\ <<row.repo_full_name, row.github_alert_id>> \notin ghOpen'
        /\ \A r \in Triggers :
             (run'[r].pc = "done" /\ Len(scan_history') = 1 /\ scan_history'[1].success = 1) =>
                 /\ Cardinality(AutoClosedRows(alerts')) <= scan_history'[1].alerts_auto_closed
                 /\ (\A k \in DOMAIN run'[r].errors : run'[r].errors[k].msg # "Failed to dismiss")
                       => Cardinality(AutoClosedRows(alerts')) = scan_history'[1].alerts_auto_closed
      ]_vars

\* C12 witness: the first run has returned; the dismissal of alert 1 of
\* repository 1 succeeded upstream and the UPDATE after it failed: three alerts
\* counted as auto-closed, two rows marked, the row of that alert not.
C12_Witness ==
    \E r \in Triggers :
        /\ run[r].pc = "done"
        /\ Len(scan_history) = 1
        /\ scan_history[1].success = 1
        /\ scan_history[1].alerts_auto_closed = 3
        /\ Cardinality(AutoClosedRows(alerts)) = 2
        /\ \E c \in dismissCalls : c.repo = 1 /\ c.number = 1 /\ c.ok
        /\ <<1, 1>> \notin ghOpen
        /\ \E row \in Conflicting(alerts, 1, 1) : row.auto_closed = 0
        /\ run[r].errors = <<ErrorEntry("Failed to dismiss", 1, 1)>>

\* C12 as stated: at the end of a run the rows it marked auto-closed are as many
\* as the alerts_auto_closed it reports, whatever store write failed.
C12_Original ==
    \A r \in Triggers :
        (run[r].pc = "done" /\ Len(scan_history) = 1 /\ scan_history[1].success = 1) =>
            Cardinality(AutoClosedRows(alerts)) = scan_history[1].alerts_auto_closed

\* The step starts an execution of runSecurityScan for trigger r.
Starts(r) == run[r].pc \in {"idle", "done", "crashed"} /\ run'[r].pc = "listRepos"

\* C13: the start of an execution appends one scan_history row, pending, whose
\* id the execution keeps, and no other step adds or removes a row; when the
\* execution has returned its row has completed_at set and success 1 or 0,
\* success = 0 exactly when the outer catch ran; a finalized row is never
\* written again.
C13_OneFinalizedRowPerRun ==
    [][ /\ \A r \in Triggers :
             Starts(r) =>
               /\ Len(scan_history') = Len(scan_history) + 1
               /\ SubSeq(scan_history', 1, Len(scan_history)) = scan_history
               /\ run'[r].scanId = Len(scan_history')
               /\ scan_history'[run'[r].scanId].scan_type = r
               /\ scan_history'[run'[r].scanId].completed_at = 0
        /\ (\A r \in Triggers : ~Starts(r)) => Len(scan_history') = Len(scan_history)
        /\ \A r \in Triggers :
             run'[r].pc = "done" =>
               LET row == scan_history'[run'[r].scanId]
                   errors == run'[r].errors
               IN  /\ row.completed_at # 0
                   /\ row.success \in {0, 1}
                   /\ row.success = 0 <=>
                         (errors # <<>> /\ errors[Len(errors)].msg = "Scan failed")
                   /\ row.errors = errors
        /\ \A i \in DOMAIN scan_history :
             scan_history[i].completed_at # 0 => scan_history'[i] = scan_history[i] ]_vars

\* C13 witness: two executions have returned, the first after a failed fetch and
\* a failed dismissal, the second through the outer catch: two rows, both
\* finalized, success 1 and 0.
C13_Witness ==
    \E r \in Triggers :
        /\ run[r].pc = "done"
        /\ Len(scan_history) = 2
        /\ run[r].scanId = 2
        /\ scan_history[1].completed_at # 0 /\ scan_history[1].success = 1
        /\ scan_history[1].errors # <<>>
        /\ scan_history[2].completed_at # 0 /\ scan_history[2].success = 0

\* The summary runSecurityScan returns has zero counts.
ZeroCounts(rec) ==
    /\ rec.reposScanned = 0 /\ rec.alertsFound = 0
    /\ rec.alertsAutoClosed = 0 /\ rec.applicableAlerts = 0

\* C14: when listOrgRepos throws, the run goes to the outer catch with the
\* failure as its only error and without touching the alerts table or upstream;
\* the catch finalizes the scan_history row with success = 0, completed_at and
\* that error, the row's counts stay 0, and the returned summary has zero counts
\* and that error.
C14_EnumerationFailure ==
    [][\A r \in Triggers :
         /\ (run[r].pc = "listRepos" /\ run'[r] # run[r] /\ faults' # faults) =>
               /\ run'[r].pc = "failed"
               /\ run'[r].errors = <<ErrorEntry("Scan failed", 0, 0)>>
               /\ run'[r].repos = <<>>
               /\ ZeroCounts(run'[r])
               /\ alerts' = alerts /\ dismissCalls' = dismissCalls /\ ghOpen' = ghOpen
         /\ (run[r].pc = "failed" /\ run[r].repos = <<>> /\ run'[r].pc = "done") =>
               LET row == scan_history'[run[r].scanId]
               IN  /\ row.success = 0
                   /\ row.completed_at = now
                   /\ row.errors = <<ErrorEntry("Scan failed", 0, 0)>>
                   /\ row.repos_scanned = 0 /\ row.alerts_found = 0
                   /\ row.alerts_auto_closed = 0
                   /\ run'[r].errors = row.errors
                   /\ ZeroCounts(run'[r])
                   /\ alerts' = alerts /\ dismissCalls' = dismissCalls /\ ghOpen' = ghOpen
      ]_vars

\* C14 witness: the first execution has returned after a failed enumeration: the
\* row says success = 0 with the error, nothing is stored, nothing dismissed.
C14_Witness ==
    \E r \in Triggers :
        /\ run[r].pc = "done"
        /\ run[r].repos = <<>>
        /\ Len(scan_history) = 1
        /\ scan_history[1].success = 0
        /\ scan_history[1].completed_at # 0
        /\ scan_history[1].errors = <<ErrorEntry("Scan failed", 0, 0)>>
        /\ ZeroCounts(run[r])
        /\ alerts = {} /\ dismissCalls = {}
        /\ Cardinality(ghOpen) = MaxRepos * MaxAlerts

\* C15: a returned run has success = 0 only if the outer catch ran, and it ran
\* while the repository loop was not in progress: on the enumeration or on the
\* final update after the last repository. A returned run whose errors are all
\* "Failed to scan" or "Failed to dismiss" entries has success = 1.
C15_SuccessFlag ==
    \A r \in Triggers :
        run[r].pc = "done" =>
            LET row == HistoryRow(r)
                errors == run[r].errors
            IN  /\ row.success = 0 =>
                      /\ errors # <<>>
                      /\ errors[Len(errors)].msg = "Scan failed"
                      /\ \A k \in 1..(Len(errors) - 1) : errors[k].msg # "Scan failed"
                      /\ run[r].repo = Len(run[r].repos)
                      /\ run[r].alerts = <<>>
                /\ (\A k \in DOMAIN errors : errors[k].msg \in {"Failed to scan", "Failed to dismiss"})
                      => (row.success = 1 /\ row.errors = errors)

\* C15 witness: a returned run with success = 1 and two errors in its list, one
\* for a repository whose store write failed and one for a failed dismissal.
C15_Witness ==
    \E r \in Triggers :
        /\ run[r].pc = "done"
        /\ HistoryRow(r).success = 1
        /\ Len(HistoryRow(r).errors) = 2
        /\ \E j, k \in 1..2 :
              /\ HistoryRow(r).errors[j].msg = "Failed to scan"
              /\ HistoryRow(r).errors[k].msg = "Failed to dismiss"

\* The step is a call of githubAPI.
Calls == auth'.calls = auth.calls + 1

\* The network calls the step made.
NewCalls == SubSeq(auth'.log, Len(auth.log) + 1, Len(auth'.log))

\* The step called the token-exchange endpoint.
Exchanged == \E i \in DOMAIN NewCalls : NewCalls[i].kind = "exchange"

\* C16 (as amended): getInstallationToken returns the cached token without a
\* call to the token-exchange endpoint exactly when the cache holds a token
\* whose remaining validity is more than 60 seconds; with exactly 60 seconds or
\* less remaining, or no entry, it goes on to sign and exchange.
C16_CachedTokenReuse ==
    [][Calls =>
         LET cached == CacheGet(auth)
             hit == cached # NoEntry /\ cached.expires_at - auth.clock > Margin
         IN  /\ hit => /\ ~Exchanged
                       /\ NewCalls = <<[kind |-> "api", token |-> cached.token]>>
                       /\ auth'.cache = auth.cache
                       /\ auth'.issued = auth.issued
             /\ ~hit => \/ Exchanged
                        \/ (auth'.result = "tokenThrew" /\ NewCalls = <<>>) ]_vars

\* C16 witness: a second call 59.999 seconds after a two-minute token was
\* cached: 60.001 seconds remain, the cached token is sent, one exchange in all.
C16_Witness ==
    /\ auth.calls = 2
    /\ auth.cache.expires_at - auth.clock = Margin + 1
    /\ auth.log = <<[kind |-> "exchange", token |-> 0], [kind |-> "api", token |-> 1],
                    [kind |-> "api", token |-> 1]>>

\* C16 as stated: with a cached token whose remaining validity is at least 60
\* seconds, exactly 60 included, no exchange is made and the cached token is used.
C16_Original ==
    [][Calls =>
         LET cached == CacheGet(auth)
         IN  (cached # NoEntry /\ cached.expires_at - auth.clock >= Margin) =>
                 /\ ~Exchanged
                 /\ NewCalls = <<[kind |-> "api", token |-> cached.token]>> ]_vars

\* C17: when the signature or the exchange fails, githubAPI throws without
\* sending its request and the cache is as it was; every request githubAPI
\* sends carries the token of the fresh cache entry or the token the exchange
\* of the same call returned, never no token.
C17_NoUnauthenticatedCall ==
    [][Calls =>
         LET cached == CacheGet(auth)
         IN  /\ auth'.result = "tokenThrew" =>
                   /\ auth'.cache = auth.cache
                   /\ \A i \in DOMAIN NewCalls : NewCalls[i].kind # "api"
             /\ \A i \in DOMAIN NewCalls :
                   NewCalls[i].kind = "api" =>
                       /\ NewCalls[i].token # 0
                       /\ \/ ( /\ cached # NoEntry
                               /\ cached.expires_at - auth.clock > Margin
                               /\ NewCalls[i].token = cached.token )
                          \/ ( /\ Exchanged
                               /\ auth'.issued = auth.issued + 1
                               /\ NewCalls[i].token = auth'.issued
                               /\ auth'.cache.token = auth'.issued )
             /\ \A i \in DOMAIN auth'.log :
                   auth'.log[i].kind = "api" => auth'.log[i].token \in 1..auth'.issued ]_vars

\* C17 witness: the second call found the cached token too close to its end,
\* the exchange failed: the call threw, the entry is still the old one and the
\* only request ever sent is the first call's.
C17_Witness ==
    /\ auth.calls = 2
    /\ auth.result = "tokenThrew"
    /\ auth.cache.token = 1
    /\ auth.cache.expires_at - auth.clock < Margin
    /\ auth.log = <<[kind |-> "exchange", token |-> 0], [kind |-> "api", token |-> 1],
                    [kind |-> "exchange", token |-> 0]>>

\* C18 as stated: a list operation that has returned has read every item of the
\* upstream list, the last request being the one answered by an empty page.
C18_ReadToExhaustion ==
    pages.done => pages.got = pages.total

\* Nothing was scanned, read, written or sent upstream since the worker started.
Untouched ==
    /\ http.effects = {}
    /\ run = [r \in Triggers |-> IdleRun]
    /\ rules = DefaultRules /\ alerts = {} /\ scan_history = <<>>
    /\ dismissCalls = {}
    /\ ghOpen = {<<repo, number>> : repo \in 1..MaxRepos, number \in 1..MaxAlerts}
    /\ auth = FreshAuth
    /\ faults = 0

\* C19: a request to a route other than GET / and POST /webhook that carries
\* the configured ADMIN_API_KEY neither in the X-Admin-Key header nor in the key
\* query parameter is answered 401 and nothing is scanned, read, written or sent
\* upstream; GET / and POST /webhook are not answered 401.
C19_AdminKeyRequired ==
    /\ ( /\ http.route \in AdminRoutes
         /\ http.header # ADMIN_API_KEY
         /\ http.query # ADMIN_API_KEY )
       => (http.status = 401 /\ Untouched)
    /\ http.route \in Routes \ AdminRoutes => http.status # 401

\* C19 witness: POST /scan with a wrong key in the query parameter and no
\* header: 401, no scan_history row, the manual run idle.
C19_Witness ==
    /\ http.route = "POST /scan"
    /\ http.header = NULL
    /\ http.query = "wrong"
    /\ http.status = 401
    /\ scan_history = <<>>
    /\ run["manual"] = IdleRun

\* C20 as stated: POST /rules with a payload the schema does not accept is
\* answered with a 4xx status and leaves applicability_rules as it was.
C20_InvalidRuleRejected ==
    ( /\ http.route = "POST /rules"
      /\ adminAuth(http.header, http.query)
      /\ ~SchemaAccepts(http.body)
      /\ http.status # 0 )
    => (http.status \in 400..499 /\ rules = DefaultRules)

\* C21: every dismissal request sent upstream, by a scan run or by
\* POST /alerts/:repo/:alertNumber/dismiss, asks for state dismissed with a
\* dismissed_reason of the upstream enum and a comment that starts with the
\* bot-identity prefix.
C21_DismissalRequestShape ==
    \A call \in dismissCalls :
        /\ call.state = "dismissed"
        /\ call.dismissed_reason \in DismissReasons
        /\ call.comment_prefix = "[xaostech-security[bot]] "

\* The row a scan on its own leaves for alert `number` of `repo`: stored with
\* the classifier's verdict, marked auto-closed when that verdict led to a
\* dismissal. The id, which follows the order of insertion, is left out.
LoneRunRow(repo, number, t) ==
    LET alert == ghAlert(repo, number)
        analysis == ScanVerdict(rules, alert)
        stored == storeAlert({}, repo, alert, analysis, t)
        final == IF AfterStore(analysis) = "dismiss"
                   THEN markAutoClosed(stored, repo, number, analysis.reason, t)
                   ELSE stored
    IN  {[row EXCEPT !.id = 0] : row \in final}

LoneRunTable(t) ==
    UNION {LoneRunRow(repo, number, t) : repo \in 1..MaxRepos, number \in 1..MaxAlerts}

\* Both executions of runSecurityScan have returned.
BothReturned == \A r \in Triggers : run[r].pc = "done"

\* C22: with a manual run started while a scheduled run is in flight, under
\* every interleaving of their steps, the alerts table holds one row per
\* (repo_full_name, alert_type, github_alert_id); each run keeps a scan_history
\* row of its own, finalized with its own counters and errors when it has
\* returned; and when no call failed, the table the two runs leave is the table
\* one run leaves, both rows report success with every repository scanned, so
\* the overlap shows only in calls made twice.
C22_OverlapIsBenign ==
    /\ OneRowPerKey(alerts)
    /\ \A r, q \in Triggers :
          (r # q /\ run[r].scanId # 0 /\ run[q].scanId # 0) => run[r].scanId # run[q].scanId
    /\ \A r \in Triggers :
          run[r].scanId # 0 => HistoryRow(r).scan_type = r
    /\ \A r \in Triggers :
          run[r].pc = "done" =>
            /\ HistoryRow(r).completed_at # 0
            /\ HistoryRow(r).errors = run[r].errors
            /\ HistoryRow(r).success = 1 =>
                  /\ HistoryRow(r).repos_scanned = run[r].reposScanned
                  /\ HistoryRow(r).alerts_found = run[r].alertsFound
                  /\ HistoryRow(r).alerts_auto_closed = run[r].alertsAutoClosed
    /\ (BothReturned /\ faults = MaxFaults - 1) =>
          /\ {[row EXCEPT !.id = 0] : row \in alerts} = LoneRunTable(now)
          /\ \A r \in Triggers :
                /\ HistoryRow(r).success = 1
                /\ HistoryRow(r).errors = <<>>
                /\ HistoryRow(r).repos_scanned = MaxRepos

\* C22 witness: both runs have returned without a failed call, and together
\* they report more auto-closed alerts than there are rows marked: an alert
\* was fetched and dismissed by both.
C22_Witness ==
    /\ BothReturned
    /\ faults = MaxFaults - 1
    /\ run["scheduled"].alertsAutoClosed + run["manual"].alertsAutoClosed
          > Cardinality(AutoClosedRows(alerts))
    /\ run["manual"].alertsAutoClosed > 0

\* The <<token, expiry>> pairs the exchange endpoint has answered with.
Issued == {<<data.token, data.expires_at>> : data \in race.exchanged}

\* C23: with two callers of getInstallationToken interleaved at every await,
\* a caller that missed the cache returns the token of its own exchange, a
\* caller that hit it returns a token some exchange answered with, and the
\* cache holds nothing or the token and the expiry of one and the same
\* exchange; a caller whose signature, exchange or put failed returns nothing.
C23_BenignRefreshRace ==
    /\ auth.cache # NoEntry => <<auth.cache.token, auth.cache.expires_at>> \in Issued
    /\ \A c \in Callers :
          /\ race.pc[c] = "returned" =>
                /\ \E pair \in Issued : pair[1] = race.returned[c]
                /\ ~race.hit[c] =>
                      /\ race.data[c] \in race.exchanged
                      /\ race.returned[c] = race.data[c].token
          /\ race.pc[c] # "returned" => race.returned[c] = 0

\* C23 witness: both callers missed the cache, each made its own exchange and
\* returned its own token, the two tokens differing in expiry, and the cache
\* holds one of the two.
C23_Witness ==
    /\ \A c \in Callers : race.pc[c] = "returned" /\ ~race.hit[c]
    /\ race.returned[1] # race.returned[2]
    /\ race.data[1].expires_at # race.data[2].expires_at
    /\ auth.cache.token \in {race.returned[1], race.returned[2]}
    /\ Cardinality(race.exchanged) = 2

\* C24: no step removes a row of the alerts table, and a row a scan run has
\* marked auto-closed after a successful dismissal is no longer in state open:
\* GET /alerts?state=open does not list it and total_open of GET /stats does
\* not count it.
C24_ClosureIsStateTransition ==
    /\ [][\A row \in alerts : Conflicting(alerts', row.repo_full_name, row.github_alert_id) # {}]_vars
    /\ [](\A row \in alerts :
            row.auto_closed = 1 =>
              /\ row \notin SelectByState(alerts, "open")
              /\ total_open(alerts) <= Cardinality(alerts \ AutoClosedRows(alerts)))

\* The step is a throw of storeAlert in execution r.
StoreFails(r) == run[r].pc = "store" /\ run'[r] # run[r] /\ faults' # faults

\* C25: a throw of storeAlert leaves the alerts table, upstream and the
\* counters as they were, appends 'Failed to scan <repo>' to the errors and
\* takes the run to the next repository (or past the loop), with no dismissal
\* request for the alert; a run that returns with only such errors has
\* success = 1; and a fetch that succeeds hands the run every alert that is
\* open upstream, whatever the alerts table holds, so the alert comes back in
\* the next run while it is open.
C25_StoreFailureSkipsRepository ==
    [][\A r \in Triggers :
        /\ StoreFails(r) =>
              LET rec == run[r]
              IN  /\ alerts' = alerts /\ dismissCalls' = dismissCalls /\ ghOpen' = ghOpen
                  /\ run'[r].errors =
                        Append(rec.errors, ErrorEntry("Failed to scan", CurrentRepo(rec), 0))
                  /\ run'[r].pc = IF rec.repo < Len(rec.repos) THEN "fetch" ELSE "finalize"
                  /\ run'[r].repo = IF rec.repo < Len(rec.repos) THEN rec.repo + 1 ELSE rec.repo
                  /\ run'[r].reposScanned = rec.reposScanned
                  /\ run'[r].alertsFound = rec.alertsFound
                  /\ run'[r].alertsAutoClosed = rec.alertsAutoClosed
                  /\ run'[r].applicableAlerts = rec.applicableAlerts
        /\ (run[r].pc = "fetch" /\ run'[r] # run[r] /\ faults' = faults) =>
              /\ run'[r].alertsFound =
                    run[r].alertsFound + Len(OpenAlerts(ghOpen, CurrentRepo(run[r])))
              /\ OpenAlerts(ghOpen, CurrentRepo(run[r])) # <<>> =>
                    /\ run'[r].alerts = OpenAlerts(ghOpen, CurrentRepo(run[r]))
                    /\ run'[r].pc = "classify" /\ run'[r].idx = 1
        /\ ( /\ run'[r].pc = "done"
             /\ \A i \in DOMAIN run'[r].errors : run'[r].errors[i].msg = "Failed to scan" )
              => scan_history'[run'[r].scanId].success = 1 ]_vars

\* C25 witness: the first run failed to store alert 1 of repository 1 and went
\* on (it closed one alert in each other repository and finished with
\* success = 1); the second run has fetched the alert again, stored it and
\* dismissed it.
C25_Witness ==
    /\ faults = 1
    /\ Len(scan_history) = 2
    /\ scan_history[1].success = 1
    /\ scan_history[1].errors = <<ErrorEntry("Failed to scan", 1, 0)>>
    /\ scan_history[1].repos_scanned = MaxRepos
    /\ scan_history[1].alerts_auto_closed = MaxRepos - 1
    /\ run["scheduled"].pc = "done" /\ run["scheduled"].scanId = 2
    /\ run["scheduled"].alertsAutoClosed = 1
    /\ \E row \in Conflicting(alerts, 1, 1) : row.auto_closed = 1

\* The README's table of Hono alerts, in the order of the claim: the phrases
\* of which one suffices, the phrases that are needed together, the verdict.
ReadmeHonoTable ==
    << [any |-> {"jwk", "jwt", "algorithm confusion"}, all |-> {}, applicable |-> FALSE],
       [any |-> {}, all |-> {"servestatic", "deno"}, applicable |-> FALSE],
       [any |-> {"csrf"}, all |-> {}, applicable |-> TRUE],
       [any |-> {"body limit"}, all |-> {}, applicable |-> FALSE],
       [any |-> {"trierouter", "named path parameters"}, all |-> {}, applicable |-> FALSE],
       [any |-> {"vary header", "cors bypass"}, all |-> {}, applicable |-> TRUE] >>

ReadmeRowMatches(row, summary) ==
    \/ row.any \cap summary # {}
    \/ row.all # {} /\ row.all \subseteq summary

\* C26: for a hono alert whose summary matches a row of the README's table,
\* analyzeAlertApplicability returns the verdict of the first such row,
\* whatever the alert's scope and severity; a hono alert that matches no row
\* gets the verdict of the general checks; a wrangler alert is non-applicable
\* exactly when its scope is development.
C26_HeuristicFollowsReadme ==
    heurResult # NoVerdict =>
        LET pkg == toLowerCase(probeAlert.package_name)
            hits == {i \in DOMAIN ReadmeHonoTable :
                        ReadmeRowMatches(ReadmeHonoTable[i], probeAlert.summary)}
            first == CHOOSE i \in hits : \A j \in hits : i <= j
        IN  /\ (pkg = "hono" /\ hits # {}) =>
                  /\ heurResult.applicable = ReadmeHonoTable[first].applicable
                  /\ \A scope \in Scopes, severity \in Severities :
                        analyzeAlertApplicability(
                            [probeAlert EXCEPT !.scope = scope, !.severity = severity]) = heurResult
            /\ (pkg = "hono" /\ hits = {}) =>
                  heurResult.applicable = (probeAlert.scope # "development")
            /\ pkg = "wrangler" =>
                  (~heurResult.applicable <=> probeAlert.scope = "development")

\* C26 witness: a hono alert of a development dependency whose summary
\* mentions CSRF and body limit is classified applicable: the CSRF row comes
\* first, and before the development-scope check.
C26_Witness ==
    /\ heurResult # NoVerdict
    /\ probeAlert.package_name = "hono"
    /\ probeAlert.scope = "development"
    /\ probeAlert.summary = {"csrf", "body limit"}
    /\ heurResult.applicable
    /\ heurResult.reason = "Review CSRF middleware usage in codebase"

\* The step belongs to the execution r has in flight (it does not start one).
SameRun(r) == run'[r] # run[r] /\ run'[r].scanId = run[r].scanId

\* C27: in every state of a run alertsAutoClosed + applicableAlerts is at most
\* alertsFound and reposScanned at most the number of repositories listed, and
\* the row of a run that returned with success = 1 carries the same numbers;
\* no step of a run lowers a counter; and alertsAutoClosed grows by one, on
\* the step where dismissAlert returned for the current alert and upstream
\* has the alert closed, and on no other step.
C27_CountersConsistent ==
    /\ [](\A r \in Triggers :
            /\ run[r].alertsAutoClosed + run[r].applicableAlerts <= run[r].alertsFound
            /\ run[r].reposScanned <= Len(run[r].repos)
            /\ (run[r].pc = "done" /\ HistoryRow(r).success = 1) =>
                  /\ HistoryRow(r).alerts_auto_closed = run[r].alertsAutoClosed
                  /\ HistoryRow(r).alerts_found = run[r].alertsFound
                  /\ HistoryRow(r).repos_scanned = run[r].reposScanned
                  /\ HistoryRow(r).alerts_auto_closed <= HistoryRow(r).alerts_found
                  /\ HistoryRow(r).repos_scanned <= MaxRepos)
    /\ [][\A r \in Triggers :
            SameRun(r) =>
              /\ run'[r].reposScanned >= run[r].reposScanned
              /\ run'[r].alertsFound >= run[r].alertsFound
              /\ run'[r].applicableAlerts >= run[r].applicableAlerts
              /\ run'[r].alertsAutoClosed >= run[r].alertsAutoClosed
              /\ run'[r].alertsAutoClosed # run[r].alertsAutoClosed =>
                    /\ run'[r].alertsAutoClosed = run[r].alertsAutoClosed + 1
                    /\ run[r].pc = "dismiss"
                    /\ faults' = faults
                    /\ <<CurrentRepo(run[r]), CurrentAlert(run[r]).number>> \notin ghOpen'
                    /\ \E call \in dismissCalls' :
                          /\ call.ok
                          /\ call.repo = CurrentRepo(run[r])
                          /\ call.number = CurrentAlert(run[r]).number ]_vars

\* C27 witness: a run has returned having closed an alert and counted an
\* applicable one, with fewer alerts closed or counted than found: a dismissal
\* failed, or a store write failed and the rest of a repository was skipped.
C27_Witness ==
    \E r \in Triggers :
        /\ run[r].pc = "done"
        /\ HistoryRow(r).success = 1
        /\ run[r].alertsAutoClosed > 0
        /\ run[r].applicableAlerts > 0
        /\ run[r].alertsAutoClosed + run[r].applicableAlerts < run[r].alertsFound
        /\ run[r].reposScanned = MaxRepos

\* C28: analyzeAlertApplicability returns a dismissReason exactly when it
\* returns applicable = false, and the dismissReason is one of the upstream
\* enum; so the branch runSecurityScan takes on the verdict after the store
\* write is the dismissal for every non-applicable alert and the applicable
\* count for every other, never the path that does neither.
C28_DismissReasonIffNotApplicable ==
    heurResult # NoVerdict =>
        /\ heurResult.dismissReason # NULL <=> ~heurResult.applicable
        /\ heurResult.dismissReason # NULL => heurResult.dismissReason \in DismissReasons
        /\ heurResult.reason # NULL
        /\ AfterStore(heurResult) = IF heurResult.applicable THEN "count" ELSE "dismiss"

\* C28 witness: a non-applicable verdict with a reason other than not_used,
\* taken to the dismissal.
C28_Witness ==
    /\ heurResult # NoVerdict
    /\ ~heurResult.applicable
    /\ heurResult.dismissReason = "inaccurate"
    /\ probeAlert.summary = {"servestatic", "deno"}
    /\ AfterStore(heurResult) = "dismiss"

\* The repositories the errors of a run name in 'Failed to scan' entries.
FailedRepos(errors) ==
    {errors[i].repo : i \in {j \in DOMAIN errors : errors[j].msg = "Failed to scan"}}

\* C29: the step on which getDependabotAlerts returns adds one to
\* reposScanned and the length of the returned list to alertsFound, with no
\* row written and no request sent yet, and no later step of the run lowers
\* either; so a run that went through the loop has counted every repository,
\* those in its 'Failed to scan' entries included, and the first run that
\* returns with such an entry has found more alerts than the table holds rows.
C29_CountedBeforeProcessed ==
    /\ [][\A r \in Triggers :
            /\ (run[r].pc = "fetch" /\ run'[r] # run[r]) =>
                  /\ run'[r].reposScanned = run[r].reposScanned + 1
                  /\ run'[r].alertsFound = run[r].alertsFound +
                        (IF faults' = faults
                           THEN Len(OpenAlerts(ghOpen, CurrentRepo(run[r]))) ELSE 0)
                  /\ alerts' = alerts /\ dismissCalls' = dismissCalls
                  /\ run'[r].applicableAlerts = run[r].applicableAlerts
                  /\ run'[r].alertsAutoClosed = run[r].alertsAutoClosed
            /\ (run[r].pc \notin {"fetch", "idle", "done", "crashed"} /\ run'[r] # run[r]) =>
                  /\ run'[r].reposScanned = run[r].reposScanned
                  /\ run'[r].alertsFound = run[r].alertsFound ]_vars
    /\ [](\A r \in Triggers :
            (run[r].pc = "done" /\ HistoryRow(r).success = 1) =>
              /\ HistoryRow(r).repos_scanned = Len(run[r].repos)
              /\ FailedRepos(run[r].errors) \subseteq 1..HistoryRow(r).repos_scanned
              /\ (run[r].scanId = 1 /\ FailedRepos(run[r].errors) # {} /\ run[r].failedFetches = {})
                    => Cardinality(alerts) < HistoryRow(r).alerts_found)

\* C29 witness: the first run has returned; the store write of the first
\* alert of repository 2 threw, nothing else failed: every repository is
\* counted, every alert upstream is counted as found, repository 2 is in the
\* errors and none of its alerts has a row.
C29_Witness ==
    /\ faults = 1
    /\ run["scheduled"].pc = "done" /\ run["scheduled"].scanId = 1
    /\ scan_history[1].success = 1
    /\ scan_history[1].errors = <<ErrorEntry("Failed to scan", 2, 0)>>
    /\ scan_history[1].repos_scanned = MaxRepos
    /\ scan_history[1].alerts_found = MaxRepos * MaxAlerts
    /\ Cardinality(alerts) = (MaxRepos - 1) * MaxAlerts
    /\ \A number \in 1..MaxAlerts : Conflicting(alerts, 2, number) = {}

\* C30: in every state, a scan_history row with success = 1 has completed_at
\* set: the rows GET /scans returns show no run as successful that is in
\* flight or that stopped before its final UPDATE.
C30_SuccessMeansCompleted ==
    \A i \in DOMAIN scan_history :
        scan_history[i].success = 1 => scan_history[i].completed_at # 0

====
